---------------------------- MODULE Spec2Model ----------------------------
(***************************************************************************)
(* Verification model of the quarterly-data subsystem of rc_brand_explorer *)
(*                                                                         *)
(*   src/src/services/quarterlyDataLoader.ts     (the Period Store)        *)
(*   src/src/services/brandAssociationService.ts (the Query Layer)         *)
(*   src/src/services/brandLoader.ts             (the registry fetch)      *)
(*                                                                         *)
(* Strings that the code normalises or compares are sequences of UTF-16    *)
(* code units, so that toUpperCase is computed and not assumed.  An async  *)
(* method is cut at its awaits: the synchronous prefix up to the fetch is  *)
(* one action, the continuation that runs when the response arrives is a   *)
(* second one.  Between `await fetch` and `await response.json()` the code *)
(* touches no shared state, so the two resumptions are one step.           *)
(***************************************************************************)
EXTENDS Integers, Sequences, FiniteSets, TLC

(***************************************************************************)
(* Bounds of the model.                                                    *)
(***************************************************************************)
\* loadQuarter / loadQuarterIndex invocations started in one behaviour
MaxCalls == 2
\* the same where a load follows a loadQuarters call
MaxLiveCalls == 3
\* loadQuarters invocations started in one behaviour
MaxBatches == 1
\* the number of association service methods the callers run
MaxOps == 2
\* the number of source files in the directory
MaxFiles == 3
\* the number of times the build is run on the directory
MaxRuns == 2
\* the length of a brand name passed to matchBrand
MaxNameLen == 2
\* the length of a metric cell passed to parseMetric
MaxCellLen == 3
\* effects of QuarterComparison run while it is mounted (brandId values it is given)
MaxEffects == 3

(***************************************************************************)
(* Strings as sequences of UTF-16 code units.                              *)
(***************************************************************************)
\* "2010Q1", "2010q1", "2010Q2", "2010Q3"
K_2010Q1 == <<50, 48, 49, 48, 81, 49>>
K_2010q1 == <<50, 48, 49, 48, 113, 49>>
K_2010Q2 == <<50, 48, 49, 48, 81, 50>>
K_2010Q3 == <<50, 48, 49, 48, 81, 51>>

\* the period keys a caller passes in this model
RawKeys == {K_2010Q1, K_2010q1, K_2010Q2, K_2010Q3}

\* String.prototype.toUpperCase on one code unit (ASCII range: a-z -> A-Z)
UpperUnit(c) == IF c >= 97 /\ c <= 122 THEN c - 32 ELSE c

\* quarter.toUpperCase()
toUpperCase(s) == [i \in 1..Len(s) |-> UpperUnit(s[i])]

NormKeys == {toUpperCase(k) : k \in RawKeys}

(***************************************************************************)
(* JSON values, tagged so that values of different kinds can be compared.  *)
(***************************************************************************)
Undefined == [t |-> "undefined"]
JString(s) == [t |-> "string", v |-> s]
JArray(a) == [t |-> "array", v |-> a]
JOther == [t |-> "object"]

\* JavaScript truthiness of a JSON value ( !x is ~Truthy(x) )
Truthy(j) ==
    CASE j.t = "undefined" -> FALSE
      [] j.t = "string" -> Len(j.v) > 0
      [] OTHER -> TRUE

IsArray(j) == j.t = "array"

\* one QuarterlyDataRecord: the brand it was matched to and its metrics
Rec(b, m) == [brandId |-> b, metrics |-> m]

\* a parsed response body
Doc(q, r) == [json |-> TRUE, quarter |-> q, records |-> r]
\* a response body that is not JSON: response.json() rejects
NotJson == [json |-> FALSE, quarter |-> Undefined, records |-> Undefined]
\* no file at the URL
NoFile == [json |-> FALSE, quarter |-> Undefined, records |-> JOther]

Idx(qs) == [json |-> TRUE, quarters |-> qs]
\* an index.json that is not JSON
IdxNotJson == [json |-> FALSE, quarters |-> Undefined]
\* the body of an error response
IdxNoFile == [json |-> FALSE, quarters |-> JOther]

(***************************************************************************)
(* The static files the loader fetches from.  They are written by the      *)
(* build and do not change while the application runs; which files exist   *)
(* is a choice of the initial state.                                       *)
(***************************************************************************)
\* the regular deployment: two periods, both indexed; no file for 2010Q3
Server1 ==
    [docs |-> (K_2010Q1 :> Doc(JString(K_2010Q1), JArray(<<Rec("b1", 61), Rec("b2", 40)>>))
            @@ K_2010Q2 :> Doc(JString(K_2010Q2), JArray(<<Rec("b2", 42)>>))
            @@ K_2010Q3 :> NoFile),
     index |-> Idx(JArray(<<K_2010Q1, K_2010Q2>>))]

\* a document without `records`, and a valid document the index does not list
Server2 ==
    [docs |-> (K_2010Q1 :> Doc(JString(K_2010Q1), JArray(<<Rec("b1", 61)>>))
            @@ K_2010Q2 :> Doc(JString(K_2010Q2), Undefined)
            @@ K_2010Q3 :> Doc(JString(K_2010Q3), JArray(<<Rec("b1", 63)>>))),
     index |-> Idx(JArray(<<K_2010Q1>>))]

\* a document without `quarter`, no file, `records` that is no array, and
\* an index without `quarters`
Server3 ==
    [docs |-> (K_2010Q1 :> Doc(Undefined, JArray(<<Rec("b1", 61)>>))
            @@ K_2010Q2 :> NoFile
            @@ K_2010Q3 :> Doc(JString(K_2010Q3), JOther)),
     index |-> Idx(Undefined)]

\* a file that is not JSON, a document whose `quarter` is the empty string,
\* a valid document, and an index that is not JSON
Server4 ==
    [docs |-> (K_2010Q1 :> NotJson
            @@ K_2010Q2 :> Doc(JString(<<>>), JArray(<<Rec("b2", 42)>>))
            @@ K_2010Q3 :> Doc(JString(K_2010Q3), JArray(<<Rec("b1", 63)>>))),
     index |-> IdxNotJson]

\* a deployment before the first build wrote a period: no document, an index
\* that lists nothing
Server5 ==
    [docs |-> (K_2010Q1 :> NoFile @@ K_2010Q2 :> NoFile @@ K_2010Q3 :> NoFile),
     index |-> Idx(JArray(<<>>))]

Servers == {Server1, Server2, Server3, Server4, Server5}

(***************************************************************************)
(* State.                                                                  *)
(***************************************************************************)
VARIABLES
    server,              \* the static files (environment, constant)
    cache,               \* QuarterlyDataLoader.cache : Map<string, QuarterlyData>
    indexCache,          \* QuarterlyDataLoader.indexCache
    performanceMetrics,  \* QuarterlyDataLoader.performanceMetrics
    calls,               \* the loadQuarter / loadQuarterIndex promises, by call id
    batches,             \* the loadQuarters promises, by batch id
    fetches,             \* how many times fetch() was called, per URL
    loaded,              \* history: the documents loaded successfully since the
                         \* last clearCache(), by normalized key
    cleared,             \* history: the URLs no load was started for since the
                         \* last clearCache()
    brandsCache,         \* BrandAssociationService.brandsCache
    op,                  \* the BrandAssociationService method that is running
    results,             \* history: the outcomes of the methods that returned
    build,               \* process-quarterly-data.ts: the run of main()
    probe,               \* the last call of a utility function and its value
    view                 \* QuarterComparison: its props, its state and its effects

\* the state of the query layer
qvars == <<brandsCache, op, results>>

\* the state of the build script, of the utility functions and of the
\* QuarterComparison component
bvars == <<build, probe, view>>

vars == <<server, cache, indexCache, performanceMetrics, calls, batches, fetches,
          loaded, cleared, brandsCache, op, results, build, probe, view>>

\* the URL of index.json, as a key of `fetches`
IndexUrl == <<105, 110, 100, 101, 120>>

Urls == NormKeys \cup {IndexUrl}

\* the empty Map
EmptyMap == <<>>

Range(f) == {f[i] : i \in DOMAIN f}

\* indexCache = null
Null == [json |-> FALSE, quarters |-> [t |-> "null"]]

\* a promise that has no value (pending or rejected)
NoValue == [json |-> FALSE]

(***************************************************************************)
(* fetch(): what the network may answer for a URL.  status 0 stands for a  *)
(* fetch that rejects (network failure); 500 for any non-ok status other   *)
(* than 404.  A file that exists is answered 200 with its content, a file  *)
(* that does not is answered 404; either fetch may also fail transiently.  *)
(***************************************************************************)
HTTP_NOT_FOUND == 404

Resp(s, b) == [status |-> s, body |-> b]

\* fetch() rejected
NetworkFailure(r) == r.status = 0

QuarterResponses(nq) ==
    {Resp(0, NoFile), Resp(500, NoFile)}
    \cup (IF server.docs[nq] = NoFile
          THEN {Resp(HTTP_NOT_FOUND, NoFile)}
          ELSE {Resp(200, server.docs[nq])})

IndexResponses ==
    {Resp(0, IdxNoFile), Resp(500, IdxNoFile), Resp(200, server.index)}

\* response.ok
ResponseOk(r) == r.status >= 200 /\ r.status <= 299

(***************************************************************************)
(* QuarterlyDataLoader                                                     *)
(***************************************************************************)
PERFORMANCE_THRESHOLD_MS == 2000

\* performance.now() differences the model draws from: one below and one
\* above the threshold
LoadTimes == {PERFORMANCE_THRESHOLD_MS - 500, PERFORMANCE_THRESHOLD_MS + 500}

\* this.cache.has(normalizedQuarter)
CacheHas(c, nq) == nq \in DOMAIN c

\* CacheSet without the write: a loader that forgets to cache
CacheSetDropped(c, nq, d) == c

\* this.cache.set(normalizedQuarter, quarterlyData)
CacheSet(c, nq, d) == [k \in DOMAIN c \cup {nq} |-> IF k = nq THEN d ELSE c[k]]

\* isQuarterCached(quarter)
isQuarterCached(quarter) == CacheHas(cache, toUpperCase(quarter))

\* if (this.indexCache) ...
IndexCached(ic) == ic # Null

\* a settled or pending promise of loadQuarter / loadQuarterIndex
\* `status` is the HTTP status of the response that settled it (-1: none,
\* it was answered from the cache or is pending).
Call(method, key, batch, st, err, value, status) ==
    [op |-> method, key |-> key, batch |-> batch, st |-> st, err |-> err,
     value |-> value, status |-> status]

\* the validation of a parsed period document (line 138)
InvalidQuarterData(data) ==
    ~Truthy(data.quarter) \/ ~Truthy(data.records) \/ ~IsArray(data.records)

\* the validation of a parsed index (line 87)
InvalidIndex(data) ==
    ~Truthy(data.quarters) \/ ~IsArray(data.quarters)

\* QuarterError with the response.ok test made before the 404 test
QuarterErrorOkFirst(r) ==
    IF NetworkFailure(r) THEN "Error"
    ELSE IF ~ResponseOk(r) THEN "Error"
    ELSE IF r.status = HTTP_NOT_FOUND THEN "QuarterNotFoundError"
    ELSE IF ~r.body.json THEN "Error"
    ELSE IF InvalidQuarterData(r.body) THEN "InvalidQuarterDataError"
    ELSE ""

\* What loadQuarter's try/catch makes of a response: the name of the error
\* it throws, or "" when the document is accepted.
QuarterError(r) ==
    IF NetworkFailure(r) THEN "Error"
    ELSE IF r.status = HTTP_NOT_FOUND THEN "QuarterNotFoundError"
    ELSE IF ~ResponseOk(r) THEN "Error"
    ELSE IF ~r.body.json THEN "Error"
    ELSE IF InvalidQuarterData(r.body) THEN "InvalidQuarterDataError"
    ELSE ""

\* What loadQuarterIndex's try/catch makes of a response.
IndexError(r) ==
    IF NetworkFailure(r) THEN "QuarterIndexLoadError"
    ELSE IF ~ResponseOk(r) THEN "QuarterIndexLoadError"
    ELSE IF ~r.body.json THEN "QuarterIndexLoadError"
    ELSE IF InvalidIndex(r.body) THEN "QuarterIndexLoadError"
    ELSE ""

\* recordLoadTime that counts a slow load without recording its time
recordLoadTimeNoPush(pm, loadTime) ==
    [pm EXCEPT !.slowLoads = IF loadTime > PERFORMANCE_THRESHOLD_MS THEN @ + 1 ELSE @]

\* recordLoadTime(loadTime, quarter)
recordLoadTime(pm, loadTime) ==
    [pm EXCEPT !.loadTimes = Append(@, loadTime),
               !.slowLoads = IF loadTime > PERFORMANCE_THRESHOLD_MS THEN @ + 1 ELSE @]

\* The part of the loader state that starting a call changes.
LoaderState ==
    [pm |-> performanceMetrics, calls |-> calls, fetches |-> fetches,
     batches |-> batches, cleared |-> cleared]

\* The synchronous part of loadQuarter(quarter), lines 106-125, applied to
\* loader state L; `batch` is the loadQuarters call it was made from (0: a
\* direct call).  The new promise is the last element of the result's calls.
loadQuarterStart(L, quarter, batch) ==
    LET nq == toUpperCase(quarter)
        pm1 == [L.pm EXCEPT !.totalLoads = @ + 1]
    IN  IF CacheHas(cache, nq)
        THEN [L EXCEPT !.pm = [pm1 EXCEPT !.cacheHits = @ + 1],
                       !.calls = Append(@,
                          Call("loadQuarter", nq, batch, "fulfilled", "", cache[nq], -1)),
                       !.cleared = @ \ {nq}]
        ELSE [L EXCEPT !.pm = [pm1 EXCEPT !.cacheMisses = @ + 1],
                       !.calls = Append(@,
                          Call("loadQuarter", nq, batch, "pending", "", NoValue, -1)),
                       !.fetches = [@ EXCEPT ![nq] = @ + 1],
                       !.cleared = @ \ {nq}]

\* quarters.map(quarter => this.loadQuarter(quarter)), line 210
RECURSIVE mapLoadQuarter(_, _, _, _)
mapLoadQuarter(L, quarters, i, batch) ==
    IF i > Len(quarters) THEN L
    ELSE mapLoadQuarter(loadQuarterStart(L, quarters[i], batch), quarters, i + 1, batch)

\* ResultMap keyed by the spelling the caller passed
ResultMapRaw(quarters, ids, cs) ==
    LET Last(k) == CHOOSE i \in 1..Len(quarters) :
                      /\ quarters[i] = k
                      /\ \A j \in 1..Len(quarters) : quarters[j] = k => j <= i
    IN  [k \in {quarters[i] : i \in 1..Len(quarters)} |-> cs[ids[Last(k)]].value]

\* results.forEach((data, index) => map.set(quarters[index].toUpperCase(), data))
\* A later index overwrites an earlier one with the same key.
ResultMap(quarters, ids, cs) ==
    LET Last(k) == CHOOSE i \in 1..Len(quarters) :
                      /\ toUpperCase(quarters[i]) = k
                      /\ \A j \in 1..Len(quarters) :
                            toUpperCase(quarters[j]) = k => j <= i
    IN  [k \in {toUpperCase(quarters[i]) : i \in 1..Len(quarters)} |->
            cs[ids[Last(k)]].value]

\* PromiseAll in the manner of Promise.allSettled: waits for every promise
\* and merges those that were fulfilled
PromiseAllSettled(b, cs, settled) ==
    IF b.st # "pending" THEN b
    ELSE IF \A i \in 1..Len(b.ids) : cs[b.ids[i]].st # "pending"
         THEN LET ok == {i \in 1..Len(b.ids) : cs[b.ids[i]].st = "fulfilled"}
              IN  [b EXCEPT !.st = "fulfilled",
                            !.value = [k \in {toUpperCase(b.quarters[i]) : i \in ok} |->
                                cs[b.ids[CHOOSE i \in ok : toUpperCase(b.quarters[i]) = k]].value]]
    ELSE b

\* Promise.all(promises), line 211: rejected with the reason of the first
\* promise that rejects, fulfilled once every promise is fulfilled.
\* `abandoned` (history) are the loads still pending when it rejected.
PromiseAll(b, cs, settled) ==
    IF b.st # "pending" THEN b
    ELSE IF settled \in Range(b.ids) /\ cs[settled].st = "rejected"
         THEN [b EXCEPT !.st = "rejected", !.err = cs[settled].err,
                        !.abandoned = {c \in Range(b.ids) : cs[c].st = "pending"}]
    ELSE IF \A i \in 1..Len(b.ids) : cs[b.ids[i]].st = "fulfilled"
         THEN [b EXCEPT !.st = "fulfilled",
                        !.value = ResultMap(b.quarters, b.ids, cs)]
    ELSE b

\* every loadQuarters promise, after call `settled` has settled
SettleBatches(bs, cs, settled) ==
    [b \in DOMAIN bs |-> PromiseAll(bs[b], cs, settled)]

\* loadQuarters(quarters) up to its await, lines 210-211.  The new promise
\* is the last element of the result's batches.
loadQuartersStart(L, quarters) ==
    LET L1 == mapLoadQuarter(L, quarters, 1, Len(L.batches) + 1)
        b == [quarters |-> quarters,
              ids |-> [i \in 1..Len(quarters) |-> Len(L.calls) + i],
              st |-> "pending", err |-> "", value |-> EmptyMap, abandoned |-> {}]
    IN  [L1 EXCEPT !.batches = Append(@, PromiseAll(b, L1.calls, 0))]

\* loadQuarterIndex() up to `await fetch`, lines 71-78
loadQuarterIndexStart(L) ==
    IF IndexCached(indexCache)
    THEN [L EXCEPT !.calls = Append(@, Call("loadQuarterIndex", IndexUrl, 0,
                                            "fulfilled", "", indexCache, -1)),
                   !.cleared = @ \ {IndexUrl}]
    ELSE [L EXCEPT !.calls = Append(@, Call("loadQuarterIndex", IndexUrl, 0,
                                            "pending", "", NoValue, -1)),
                   !.fetches = [@ EXCEPT ![IndexUrl] = @ + 1],
                   !.cleared = @ \ {IndexUrl}]

(***************************************************************************)
(* BrandAssociationService: the registry and the method that is running.   *)
(***************************************************************************)
\* brands.json, as loadBrands() returns it: the brands "Ab" and "Cd", and a
\* third entry "AB" whose name normalizes as that of the first
BrandRegistry ==
    <<[id |-> "b1", name |-> <<65, 98>>], [id |-> "b2", name |-> <<67, 100>>],
      [id |-> "b3", name |-> <<65, 66>>]>>

\* brandsCache = null
NoBrands == [loaded |-> FALSE, brands |-> <<>>]

\* no method is running
Idle == [name |-> "idle"]

\* the methods that resolve the brand first (findBrandById)
BrandMethods ==
    {"getBrandWithQuarterlyData", "getMetricsForQuarter",
     "getAvailableQuartersForBrand", "hasBrandQuarterlyData",
     "compareQuarters", "getBrandDataCoverage"}

\* A running method: its arguments, the await it is suspended at (pc), the
\* loader promise it awaits (call, batch), whether it is inside the nested
\* getAvailableQuartersForBrand call, totalQuarters of getBrandDataCoverage,
\* and whether findBrandById had the registry.
Method(name, brandId, quarter, quarters) ==
    [name |-> name, brandId |-> brandId, quarter |-> quarter,
     quarters |-> quarters, pc |-> "awaitBrands", call |-> 0, batch |-> 0,
     nested |-> FALSE, total |-> 0, registry |-> FALSE]

\* a lookup that accepts every id
BrandFoundAlways(brands, brandId) ==
    TRUE

\* brands.find(b => b.id === brandId) is not undefined, lines 43-45
BrandFound(brands, brandId) ==
    \E i \in 1..Len(brands) : brands[i].id = brandId

\* records.find(r => r.brandId === brandId): the first match, or undefined
FindRecord(records, brandId) ==
    IF \E i \in 1..Len(records) : records[i].brandId = brandId
    THEN records[CHOOSE i \in 1..Len(records) :
                    /\ records[i].brandId = brandId
                    /\ \A j \in 1..(i - 1) : records[j].brandId # brandId]
    ELSE Undefined

\* a < b in the order of Array.prototype.sort() without a comparator:
\* strings compared by UTF-16 code units
KeyLess(a, b) ==
    \/ /\ Len(a) < Len(b)
       /\ \A i \in 1..Len(a) : a[i] = b[i]
    \/ \E i \in 1..Len(a) :
          /\ i <= Len(b)
          /\ a[i] < b[i]
          /\ \A j \in 1..(i - 1) : a[j] = b[j]

\* availableQuarters.sort() of an array with the distinct elements S
RECURSIVE Sort(_)
Sort(S) ==
    IF S = {} THEN <<>>
    ELSE LET m == CHOOSE x \in S : \A y \in S \ {x} : KeyLess(x, y)
         IN  <<m>> \o Sort(S \ {m})

\* the keys of the loaded map whose document has a record of the brand
\* (the loops at lines 72-80, 131-136 and 176-182)
QuartersWithBrand(quarterDataMap, brandId) ==
    {k \in DOMAIN quarterDataMap :
        FindRecord(quarterDataMap[k].records.v, brandId) # Undefined}

\* the map built at lines 69-80 and 174-182
MetricsByQuarter(quarterDataMap, brandId) ==
    [k \in QuartersWithBrand(quarterDataMap, brandId) |->
        FindRecord(quarterDataMap[k].records.v, brandId).metrics]

\* getBrandWithQuarterlyData taking the first available quarter as the latest
BrandWithQuarterlyDataFirst(quarterDataMap, brandId) ==
    LET availableQuarters == Sort(QuartersWithBrand(quarterDataMap, brandId))
    IN  [t |-> "BrandWithQuarterlyData",
         brand |-> [id |-> brandId],
         quarterlyData |-> MetricsByQuarter(quarterDataMap, brandId),
         availableQuarters |-> availableQuarters,
         latestQuarter |-> IF Len(availableQuarters) > 0
                           THEN JString(availableQuarters[1])
                           ELSE Undefined]

\* the value getBrandWithQuarterlyData returns, lines 82-95
BrandWithQuarterlyData(quarterDataMap, brandId) ==
    LET availableQuarters == Sort(QuartersWithBrand(quarterDataMap, brandId))
    IN  [t |-> "BrandWithQuarterlyData",
         brand |-> [id |-> brandId],
         quarterlyData |-> MetricsByQuarter(quarterDataMap, brandId),
         availableQuarters |-> availableQuarters,
         latestQuarter |-> IF Len(availableQuarters) > 0
                           THEN JString(availableQuarters[Len(availableQuarters)])
                           ELSE Undefined]

\* the value getMetricsForQuarter returns, lines 112-114
MetricsOrNull(quarterData, brandId) ==
    LET record == FindRecord(quarterData.records.v, brandId)
    IN  IF record # Undefined THEN [t |-> "metrics", v |-> record.metrics]
        ELSE [t |-> "null"]

\* getBrandDataCoverage counting every listed period as a period with data
BrandDataCoverageAll(brandId, totalQuarters, availableQuarters) ==
    LET quartersWithData == totalQuarters
    IN  [t |-> "BrandDataCoverage",
         brandId |-> brandId,
         totalQuarters |-> totalQuarters,
         quartersWithData |-> quartersWithData,
         availableQuarters |-> availableQuarters,
         coveragePercent |-> IF totalQuarters > 0
                             THEN [num |-> quartersWithData * 100, den |-> totalQuarters]
                             ELSE [num |-> 0, den |-> 1],
         earliestQuarter |-> [t |-> "null"],
         latestQuarter |-> [t |-> "null"]]

\* the value getBrandDataCoverage returns, lines 200-221; coveragePercent
\* is the quotient num / den
BrandDataCoverage(brandId, totalQuarters, availableQuarters) ==
    LET quartersWithData == Len(availableQuarters)
    IN  [t |-> "BrandDataCoverage",
         brandId |-> brandId,
         totalQuarters |-> totalQuarters,
         quartersWithData |-> quartersWithData,
         availableQuarters |-> availableQuarters,
         coveragePercent |-> IF totalQuarters > 0
                             THEN [num |-> quartersWithData * 100, den |-> totalQuarters]
                             ELSE [num |-> 0, den |-> 1],
         earliestQuarter |-> IF quartersWithData > 0
                             THEN JString(availableQuarters[1]) ELSE [t |-> "null"],
         latestQuarter |-> IF quartersWithData > 0
                           THEN JString(availableQuarters[quartersWithData])
                           ELSE [t |-> "null"]]

\* what a method returns once loadQuarters(...) is fulfilled with map m
ValueOfQuarters(o, m) ==
    CASE o.name = "getBrandWithQuarterlyData" -> BrandWithQuarterlyData(m, o.brandId)
      [] o.name = "getAvailableQuartersForBrand" ->
            JArray(Sort(QuartersWithBrand(m, o.brandId)))
      [] o.name = "hasBrandQuarterlyData" ->
            [t |-> "boolean", v |-> Len(Sort(QuartersWithBrand(m, o.brandId))) > 0]
      [] o.name = "compareQuarters" ->
            [t |-> "Map", v |-> MetricsByQuarter(m, o.brandId)]
      [] o.name = "getBrandDataCoverage" ->
            BrandDataCoverage(o.brandId, o.total, Sort(QuartersWithBrand(m, o.brandId)))

\* what a method returns once loadQuarter(...) is fulfilled with quarterData
ValueOfQuarter(o, quarterData) ==
    IF o.name = "getMetricsForQuarter"
    THEN MetricsOrNull(quarterData, o.brandId)
    ELSE JArray([i \in 1..Len(quarterData.records.v) |->
                    quarterData.records.v[i].brandId])

\* `await quarterlyDataLoader.loadQuarter(quarter)` with a catch that turns a
\* missing period into null
QuarterOutcomeCaught(o, p) ==
    IF p.st = "rejected" /\ p.err = "QuarterNotFoundError"
    THEN [st |-> "fulfilled", err |-> "", value |-> [t |-> "null"]]
    ELSE IF p.st = "rejected"
         THEN [st |-> "rejected", err |-> p.err, value |-> NoValue]
         ELSE [st |-> "fulfilled", err |-> "", value |-> ValueOfQuarter(o, p.value)]

\* `await quarterlyDataLoader.loadQuarter(quarter)` and the code after it,
\* lines 109-114 and 154-157: there is no try/catch, a rejection is thrown on
QuarterOutcome(o, p) ==
    IF p.st = "rejected"
    THEN [st |-> "rejected", err |-> p.err, value |-> NoValue]
    ELSE [st |-> "fulfilled", err |-> "", value |-> ValueOfQuarter(o, p.value)]

\* `await quarterlyDataLoader.loadQuarters(...)` and the code after it,
\* lines 66-95, 126-138 and 171-184
QuartersOutcome(o, b) ==
    IF b.st = "rejected"
    THEN [st |-> "rejected", err |-> b.err, value |-> NoValue]
    ELSE [st |-> "fulfilled", err |-> "", value |-> ValueOfQuarters(o, b.value)]

\* the outcome of a method that returned or threw
Result(o, st, err, value) ==
    [name |-> o.name, brandId |-> o.brandId, quarter |-> o.quarter,
     quarters |-> o.quarters, call |-> o.call, batch |-> o.batch,
     registry |-> o.registry, st |-> st, err |-> err, value |-> value]

(***************************************************************************)
(* process-quarterly-data.ts and the utilities it uses.                    *)
(***************************************************************************)
\* main() has not been started
NoBuild == [phase |-> "none"]

\* no utility function has been called
NoProbe == [fn |-> "none"]

\* no QuarterComparison has been rendered
NoView == [status |-> "none"]

\* every string of code units from `alphabet` of length n
Strings(alphabet, n) == [1..n -> alphabet]

\* every string of code units from `alphabet` of length at most n
StringsUpTo(alphabet, n) == UNION {Strings(alphabet, k) : k \in 0..n}

\* the code units String.prototype.trim() removes: WhiteSpace and
\* LineTerminator of ECMAScript
IsWhiteSpace(c) ==
    \/ c \in {9, 10, 11, 12, 13, 32, 160, 5760, 8232, 8233, 8239, 8287, 12288, 65279}
    \/ (c >= 8192 /\ c <= 8202)

\* value.trim()
trim(s) ==
    LET keep == {i \in 1..Len(s) : ~IsWhiteSpace(s[i])}
    IN  IF keep = {} THEN <<>>
        ELSE SubSeq(s, CHOOSE i \in keep : \A j \in keep : i <= j,
                       CHOOSE i \in keep : \A j \in keep : i >= j)

\* the lower-case form of a code unit (the letters A-Z)
LowerUnit(c) == IF c >= 65 /\ c <= 90 THEN c + 32 ELSE c

\* name.toLowerCase()
toLowerCase(s) == [i \in 1..Len(s) |-> LowerUnit(s[i])]

\* normalizeBrandName without the trim
normalizeBrandNameNoTrim(name) ==
    toLowerCase(name)

\* brandMatcher.ts lines 11-13
normalizeBrandName(name) ==
    toLowerCase(trim(name))

\* brandMatcher.ts lines 29-31
matchBrand(brandName1, brandName2) ==
    normalizeBrandName(brandName1) = normalizeBrandName(brandName2)

\* findBrandByName with the last matching entry in place of the first
findBrandByNameLast(searchName, brands) ==
    LET normalizedSearch == normalizeBrandName(searchName)
        hits == {i \in 1..Len(brands) : normalizeBrandName(brands[i].name) = normalizedSearch}
    IN  IF hits = {} THEN Undefined
        ELSE brands[CHOOSE i \in hits : \A j \in hits : i >= j]

\* brandMatcher.ts lines 45-51: brands.find(...), the first match or undefined
findBrandByName(searchName, brands) ==
    LET normalizedSearch == normalizeBrandName(searchName)
        hits == {i \in 1..Len(brands) : normalizeBrandName(brands[i].name) = normalizedSearch}
    IN  IF hits = {} THEN Undefined
        ELSE brands[CHOOSE i \in hits : \A j \in hits : i <= j]

(***************************************************************************)
(* parseFloat.  A number is the decimal mant * 10^exp, normalised.         *)
(***************************************************************************)
NaN == [t |-> "NaN"]

\* the number mant * 10^exp, with a mantissa that does not end in 0
RECURSIVE Number(_, _)
Number(mant, exp) ==
    IF mant = 0 THEN [t |-> "number", mant |-> 0, exp |-> 0]
    ELSE IF mant % 10 = 0 THEN Number(mant \div 10, exp + 1)
    ELSE [t |-> "number", mant |-> mant, exp |-> exp]

IsDigit(c) == c >= 48 /\ c <= 57

\* the number of digits of s from position i on
DigitRun(s, i) ==
    LET stop == {j \in i..Len(s) : ~IsDigit(s[j])}
    IN  IF i > Len(s) THEN 0
        ELSE IF stop = {} THEN Len(s) - i + 1
        ELSE (CHOOSE j \in stop : \A k \in stop : j <= k) - i

\* the value of the n digits of s from position i on
RECURSIVE DigitsValue(_, _, _)
DigitsValue(s, i, n) ==
    IF n = 0 THEN 0
    ELSE 10 * DigitsValue(s, i, n - 1) + (s[i + n - 1] - 48)

\* the code unit of s at position i, 0 beyond its end
At(s, i) == IF i >= 1 /\ i <= Len(s) THEN s[i] ELSE 0

\* The longest prefix of s that is a StrDecimalLiteral (sign, digits,
\* fraction, exponent), as its length and value; length 0 when there is
\* none.  s has no leading white space.
FloatPrefix(s) ==
    LET signed == At(s, 1) \in {43, 45}
        neg == At(s, 1) = 45
        i == IF signed THEN 2 ELSE 1
        nInt == DigitRun(s, i)
        dot == At(s, i + nInt) = 46
        nFrac == IF dot THEN DigitRun(s, i + nInt + 1) ELSE 0
        mantEnd == IF dot THEN i + nInt + nFrac ELSE i + nInt - 1
        hasE == At(s, mantEnd + 1) \in {69, 101}
        eSigned == At(s, mantEnd + 2) \in {43, 45}
        eNeg == At(s, mantEnd + 2) = 45
        eStart == IF eSigned THEN mantEnd + 3 ELSE mantEnd + 2
        nExp == IF hasE THEN DigitRun(s, eStart) ELSE 0
        exp == DigitsValue(s, eStart, nExp)
        digits == [k \in 1..(nInt + nFrac) |->
                      IF k <= nInt THEN s[i + k - 1] ELSE s[i + k]]
        mant == DigitsValue(digits, 1, nInt + nFrac)
        signedMant == IF neg THEN -mant ELSE mant
    IN  IF nInt + nFrac = 0 THEN [len |-> 0, value |-> NaN]
        ELSE IF nExp = 0 THEN [len |-> mantEnd, value |-> Number(signedMant, -nFrac)]
        ELSE [len |-> eStart + nExp - 1,
              value |-> Number(signedMant, (IF eNeg THEN -exp ELSE exp) - nFrac)]

\* s without its leading white space
trimStart(s) ==
    LET keep == {i \in 1..Len(s) : ~IsWhiteSpace(s[i])}
    IN  IF keep = {} THEN <<>>
        ELSE SubSeq(s, CHOOSE i \in keep : \A j \in keep : i <= j, Len(s))

\* parseFloat(value): the number the longest numeric prefix denotes, or NaN
parseFloat(value) == FloatPrefix(trimStart(value)).value

\* csvParser.ts lines 59-63; a cell is a string or, for a column the row
\* does not have, undefined
parseMetric(value) ==
    IF ~Truthy(value) \/ trim(value.v) = <<>> THEN [t |-> "null"]
    ELSE LET parsed == parseFloat(value.v)
         IN  IF parsed = NaN THEN [t |-> "null"] ELSE parsed

(***************************************************************************)
(* Initial state: a freshly constructed loader (lines 51-63) and service.  *)
(***************************************************************************)
Init ==
    /\ server \in Servers
    /\ cache = EmptyMap
    /\ indexCache = Null
    /\ performanceMetrics = [totalLoads |-> 0, cacheHits |-> 0, cacheMisses |-> 0,
                             slowLoads |-> 0, loadTimes |-> <<>>]
    /\ calls = <<>>
    /\ batches = <<>>
    /\ fetches = [u \in Urls |-> 0]
    /\ loaded = EmptyMap
    /\ cleared = {}
    /\ brandsCache = NoBrands
    /\ op = Idle
    /\ results = <<>>
    /\ build = NoBuild
    /\ probe = NoProbe
    /\ view = NoView

\* the lists of period keys passed to loadQuarters in this model
QuarterLists ==
    {<<>>, <<K_2010Q1>>, <<K_2010Q1, K_2010Q2>>, <<K_2010Q1, K_2010q1>>,
     <<K_2010Q3, K_2010Q1>>}

(***************************************************************************)
(* Actions of the loader.                                                  *)
(***************************************************************************)
\* the loader state after a call was started
SetLoaderState(L) ==
    /\ performanceMetrics' = L.pm
    /\ calls' = L.calls
    /\ fetches' = L.fetches
    /\ batches' = L.batches
    /\ cleared' = L.cleared

\* a caller invokes loadQuarter(quarter): the code up to `await fetch`
LoadQuarter(quarter) ==
    /\ SetLoaderState(loadQuarterStart(LoaderState, quarter, 0))
    /\ UNCHANGED <<bvars, server, cache, indexCache, loaded, qvars>>

\* InFlight with the fetches of a rejected loadQuarters call aborted
InFlightUnlessAbandoned(c) ==
    /\ calls[c].st = "pending"
    /\ \A b \in DOMAIN batches : c \notin batches[b].abandoned

\* the fetch of call c is awaited, line 125: no signal is passed to fetch,
\* so nothing aborts it
InFlight(c) ==
    calls[c].st = "pending"

\* the response to the fetch of call c arrives: lines 127-161
QuarterResponse(c, r, loadTime) ==
    /\ c \in DOMAIN calls
    /\ calls[c].op = "loadQuarter"
    /\ InFlight(c)
    /\ r \in QuarterResponses(calls[c].key)
    /\ LET err == QuarterError(r)
           cs == [calls EXCEPT ![c] =
                    IF err = ""
                    THEN [@ EXCEPT !.st = "fulfilled", !.value = r.body,
                                   !.status = r.status]
                    ELSE [@ EXCEPT !.st = "rejected", !.err = err,
                                   !.status = r.status]]
       IN  /\ calls' = cs
           /\ batches' = SettleBatches(batches, cs, c)
           /\ IF err = ""
              THEN /\ cache' = CacheSet(cache, calls[c].key, r.body)
                   /\ performanceMetrics' = recordLoadTime(performanceMetrics, loadTime)
                   /\ loaded' = [k \in DOMAIN loaded \cup {calls[c].key} |->
                                   IF k = calls[c].key THEN r.body ELSE loaded[k]]
              ELSE /\ UNCHANGED <<cache, performanceMetrics, loaded>>
    /\ UNCHANGED <<bvars, server, indexCache, fetches, cleared, qvars>>

\* a caller invokes loadQuarters(quarters): lines 210-211 up to the await
LoadQuarters(quarters) ==
    /\ SetLoaderState(loadQuartersStart(LoaderState, quarters))
    /\ UNCHANGED <<bvars, server, cache, indexCache, loaded, qvars>>

\* a caller invokes loadQuarterIndex(): lines 71-78 up to `await fetch`
LoadQuarterIndex ==
    /\ SetLoaderState(loadQuarterIndexStart(LoaderState))
    /\ UNCHANGED <<bvars, server, cache, indexCache, loaded, qvars>>

\* the response to the fetch of index.json arrives: lines 80-98
IndexResponse(c, r) ==
    /\ c \in DOMAIN calls
    /\ calls[c].op = "loadQuarterIndex"
    /\ calls[c].st = "pending"
    /\ r \in IndexResponses
    /\ LET err == IndexError(r)
       IN  IF err = ""
           THEN /\ indexCache' = r.body
                /\ calls' = [calls EXCEPT ![c] =
                       [@ EXCEPT !.st = "fulfilled", !.value = r.body,
                                 !.status = r.status]]
           ELSE /\ UNCHANGED indexCache
                /\ calls' = [calls EXCEPT ![c] =
                       [@ EXCEPT !.st = "rejected", !.err = err, !.status = r.status]]
    /\ UNCHANGED <<bvars, server, cache, performanceMetrics, batches, fetches, cleared,
                   loaded, qvars>>

\* clearCache(), lines 231-234
ClearCache ==
    /\ cache' = EmptyMap
    /\ indexCache' = Null
    /\ loaded' = EmptyMap
    /\ cleared' = Urls
    /\ UNCHANGED <<bvars, server, performanceMetrics, calls, batches, fetches, qvars>>

(***************************************************************************)
(* BrandAssociationService.  A method is cut at its awaits; the caller     *)
(* awaits one method before it calls the next one, while loads that a      *)
(* rejected Promise.all left pending still complete.                       *)
(***************************************************************************)
\* the method returns (st = "fulfilled") or throws (st = "rejected")
Return(st, err, value) ==
    /\ results' = Append(results, Result(op, st, err, value))
    /\ op' = Idle

\* a caller invokes a method that starts with findBrandById: the code up to
\* `await this.loadBrandsCache()`, lines 31-33 and 42
CallBrandMethod(name, brandId, quarter, quarters) ==
    /\ op = Idle
    /\ Len(results) < MaxOps
    /\ op' = Method(name, brandId, quarter, quarters)
    /\ UNCHANGED <<bvars, server, cache, indexCache, performanceMetrics, calls, batches,
                   fetches, cleared, loaded, brandsCache, results>>

\* getBrandsWithDataInQuarter(quarter) up to its await, line 154
GetBrandsWithDataInQuarter(quarter) ==
    /\ op = Idle
    /\ Len(results) < MaxOps
    /\ LET L == loadQuarterStart(LoaderState, quarter, 0)
       IN  /\ SetLoaderState(L)
           /\ op' = [Method("getBrandsWithDataInQuarter", "", quarter, Undefined)
                        EXCEPT !.pc = "awaitQuarter", !.call = Len(L.calls)]
    /\ UNCHANGED <<bvars, server, cache, indexCache, loaded, brandsCache, results>>

\* quarterlyDataLoader.loadQuarter(quarter), called from the running method
AwaitLoadQuarter(o, quarter) ==
    LET L == loadQuarterStart(LoaderState, quarter, 0)
    IN  /\ SetLoaderState(L)
        /\ op' = [o EXCEPT !.pc = "awaitQuarter", !.call = Len(L.calls)]
        /\ UNCHANGED results

\* quarterlyDataLoader.loadQuarters(quarters), called from the running method
AwaitLoadQuarters(o, quarters) ==
    LET L == loadQuartersStart(LoaderState, quarters)
    IN  /\ SetLoaderState(L)
        /\ op' = [o EXCEPT !.pc = "awaitBatch", !.batch = Len(L.batches)]
        /\ UNCHANGED results

\* quarterlyDataLoader.getAvailableQuarters(), called from the running method
AwaitAvailableQuarters(o) ==
    LET L == loadQuarterIndexStart(LoaderState)
    IN  /\ SetLoaderState(L)
        /\ op' = [o EXCEPT !.pc = "awaitIndex", !.call = Len(L.calls)]
        /\ UNCHANGED results

\* findBrandById continues after `await this.loadBrandsCache()`, lines
\* 33-49, and the method runs on to its next await.  `ok` is whether
\* loadBrands() succeeded, when the registry was not cached.
BrandsLoaded(ok) ==
    /\ op # Idle
    /\ op.pc = "awaitBrands"
    /\ IF ~brandsCache.loaded /\ ~ok
       THEN \* brandLoader.ts line 13
            /\ Return("rejected", "Error", NoValue)
            /\ UNCHANGED <<brandsCache, performanceMetrics, calls, batches, fetches, cleared>>
       ELSE LET brands == IF brandsCache.loaded THEN brandsCache.brands ELSE BrandRegistry
                o == [op EXCEPT !.registry = TRUE]
            IN  /\ brandsCache' = [loaded |-> TRUE, brands |-> brands]
                /\ IF ~BrandFound(brands, op.brandId)
                   THEN /\ results' = Append(results,
                              Result(o, "rejected", "BrandNotFoundError", NoValue))
                        /\ op' = Idle
                        /\ UNCHANGED <<performanceMetrics, calls, batches, fetches, cleared>>
                   ELSE CASE op.name = "getMetricsForQuarter" ->
                                 AwaitLoadQuarter(o, op.quarter)
                          [] op.name = "compareQuarters" ->
                                 AwaitLoadQuarters(o, op.quarters.v)
                          [] op.name = "getBrandWithQuarterlyData" /\ Truthy(op.quarters) ->
                                 AwaitLoadQuarters(o, op.quarters.v)
                          [] OTHER -> AwaitAvailableQuarters(o)
    /\ UNCHANGED <<bvars, server, cache, indexCache, loaded>>

\* the method continues after `await quarterlyDataLoader.getAvailableQuarters()`
AvailableQuartersLoaded ==
    /\ op # Idle
    /\ op.pc = "awaitIndex"
    /\ calls[op.call].st # "pending"
    /\ IF calls[op.call].st = "rejected"
       THEN /\ Return("rejected", calls[op.call].err, NoValue)
            /\ UNCHANGED <<performanceMetrics, calls, batches, fetches, cleared>>
       ELSE LET allQuarters == calls[op.call].value.quarters.v
            IN  IF op.name = "getBrandDataCoverage" /\ ~op.nested
                THEN \* lines 196-199: on to getAvailableQuartersForBrand
                     /\ op' = [op EXCEPT !.total = Len(allQuarters), !.nested = TRUE,
                                         !.pc = "awaitBrands"]
                     /\ UNCHANGED <<performanceMetrics, calls, batches, fetches, cleared,
                                     results>>
                ELSE AwaitLoadQuarters(op, allQuarters)
    /\ UNCHANGED <<bvars, server, cache, indexCache, loaded, brandsCache>>

\* the method continues after `await quarterlyDataLoader.loadQuarters(...)`
QuartersLoaded ==
    /\ op # Idle
    /\ op.pc = "awaitBatch"
    /\ batches[op.batch].st # "pending"
    /\ LET out == QuartersOutcome(op, batches[op.batch])
       IN  Return(out.st, out.err, out.value)
    /\ UNCHANGED <<bvars, server, cache, indexCache, performanceMetrics, calls, batches,
                   fetches, cleared, loaded, brandsCache>>

\* the method continues after `await quarterlyDataLoader.loadQuarter(quarter)`
QuarterLoaded ==
    /\ op # Idle
    /\ op.pc = "awaitQuarter"
    /\ calls[op.call].st # "pending"
    /\ LET out == QuarterOutcome(op, calls[op.call])
       IN  Return(out.st, out.err, out.value)
    /\ UNCHANGED <<bvars, server, cache, indexCache, performanceMetrics, calls, batches,
                   fetches, cleared, loaded, brandsCache>>

\* BrandAssociationService.clearCache(), lines 227-229
ClearBrandsCache ==
    /\ brandsCache' = NoBrands
    /\ UNCHANGED <<bvars, server, cache, indexCache, performanceMetrics, calls, batches,
                   fetches, cleared, loaded, op, results>>

\* every response the network may give to a period document fetch
AllQuarterResponses == UNION {QuarterResponses(nq) : nq \in NormKeys}

(***************************************************************************)
(* Spec: the loader under any interleaving of its callers.  Load times are *)
(* below the slow-load threshold here; SpecTimes draws them from both      *)
(* sides of it, on the regular deployment.                                 *)
(***************************************************************************)
\* n more loads may be started
CallsLeft(n, max) == Len(calls) + n <= max

Next ==
    \/ \E quarter \in RawKeys : CallsLeft(1, MaxCalls) /\ LoadQuarter(quarter)
    \/ \E c \in DOMAIN calls : \E r \in AllQuarterResponses :
          QuarterResponse(c, r, PERFORMANCE_THRESHOLD_MS - 500)
    \/ \E quarters \in QuarterLists :
          /\ Len(batches) < MaxBatches
          /\ CallsLeft(Len(quarters), MaxCalls)
          /\ LoadQuarters(quarters)
    \/ CallsLeft(1, MaxCalls) /\ LoadQuarterIndex
    \/ \E c \in DOMAIN calls : \E r \in IndexResponses : IndexResponse(c, r)
    \/ ClearCache

Spec == Init /\ [][Next]_vars

InitTimes == Init /\ server = Server1

NextTimes ==
    \/ \E quarter \in RawKeys : CallsLeft(1, MaxLiveCalls) /\ LoadQuarter(quarter)
    \/ \E c \in DOMAIN calls : \E r \in AllQuarterResponses : \E t \in LoadTimes :
          QuarterResponse(c, r, t)
    \/ \E quarters \in QuarterLists :
          /\ Len(batches) < MaxBatches
          /\ CallsLeft(Len(quarters), MaxLiveCalls)
          /\ LoadQuarters(quarters)
    \/ CallsLeft(1, MaxLiveCalls) /\ LoadQuarterIndex
    \/ \E c \in DOMAIN calls : \E r \in IndexResponses : IndexResponse(c, r)
    \/ ClearCache

SpecTimes == InitTimes /\ [][NextTimes]_vars

(***************************************************************************)
(* SpecLive: a loadQuarters call and the loads around it.  A fetch that    *)
(* was started settles: the browser answers or fails it, and the           *)
(* continuation of the await then runs.                                    *)
(***************************************************************************)
NextLive ==
    \/ \E quarters \in {<<K_2010Q3, K_2010Q1>>, <<K_2010Q1, K_2010Q2>>} :
          /\ Len(batches) < MaxBatches
          /\ CallsLeft(Len(quarters), MaxLiveCalls)
          /\ LoadQuarters(quarters)
    \/ \E quarter \in {K_2010Q1, K_2010q1, K_2010Q2} :
          CallsLeft(1, MaxLiveCalls) /\ LoadQuarter(quarter)
    \/ \E c \in DOMAIN calls : \E r \in AllQuarterResponses :
          QuarterResponse(c, r, PERFORMANCE_THRESHOLD_MS - 500)
    \/ ClearCache

\* the fetch of call c settles
FetchSettles(c) ==
    \E r \in AllQuarterResponses : QuarterResponse(c, r, PERFORMANCE_THRESHOLD_MS - 500)

SpecLive ==
    /\ InitTimes
    /\ [][NextLive]_vars
    /\ \A c \in 1..MaxLiveCalls : WF_vars(FetchSettles(c))

(***************************************************************************)
(* SpecQ: the callers of the association service.                          *)
(***************************************************************************)
\* the brand ids callers pass: one of the registry and one unknown to it
BrandIds == {"b1", "bx"}

\* the `quarters` arguments callers pass; undefined: the parameter is left out
QuartersArgs ==
    {Undefined, JArray(<<>>), JArray(<<K_2010q1>>), JArray(<<K_2010Q3, K_2010Q1>>)}

NextQ ==
    \/ \E brandId \in BrandIds : \E quarters \in QuartersArgs :
          CallBrandMethod("getBrandWithQuarterlyData", brandId, <<>>, quarters)
    \/ \E brandId \in BrandIds : \E quarter \in RawKeys :
          CallBrandMethod("getMetricsForQuarter", brandId, quarter, Undefined)
    \/ \E brandId \in BrandIds :
          CallBrandMethod("getAvailableQuartersForBrand", brandId, <<>>, Undefined)
    \/ \E brandId \in BrandIds :
          CallBrandMethod("hasBrandQuarterlyData", brandId, <<>>, Undefined)
    \/ \E brandId \in BrandIds : \E quarters \in QuartersArgs \ {Undefined} :
          CallBrandMethod("compareQuarters", brandId, <<>>, quarters)
    \/ \E brandId \in BrandIds :
          CallBrandMethod("getBrandDataCoverage", brandId, <<>>, Undefined)
    \/ \E quarter \in RawKeys : GetBrandsWithDataInQuarter(quarter)
    \/ \E ok \in BOOLEAN : BrandsLoaded(ok)
    \/ AvailableQuartersLoaded
    \/ QuartersLoaded
    \/ QuarterLoaded
    \/ ClearBrandsCache
    \/ \E c \in DOMAIN calls : \E r \in AllQuarterResponses :
          QuarterResponse(c, r, PERFORMANCE_THRESHOLD_MS - 500)
    \/ \E c \in DOMAIN calls : \E r \in IndexResponses : IndexResponse(c, r)

SpecQ == Init /\ [][NextQ]_vars

(***************************************************************************)
(* The build script.  A source file is its name, its size, whether the CSV *)
(* stream can be read to its end, the columns of its header and its rows;  *)
(* a row is its `Brand name` cell and one metric cell (every metric column *)
(* is parsed by the same parseMetric).  processedAt and lastUpdated, the   *)
(* wall-clock stamps, are left out of the documents.                       *)
(***************************************************************************)
REQUIRED_CSV_COLUMNS ==
    {"Brand name", "Brand id", "Category", "Total_Users_pct", "Total_Prefer_pct"}

\* 'UNKNOWN'
UNKNOWN == <<85, 78, 75, 78, 79, 87, 78>>

\* '.csv'
DotCsv == <<46, 99, 115, 118>>

\* csvParser.ts lines 178-181: the first match of /(\d{4}Q\d)/i, upper-cased
extractQuarter(filename) ==
    LET hits == {i \in 1..(Len(filename) - 5) :
                    /\ \A j \in 0..3 : IsDigit(filename[i + j])
                    /\ filename[i + 4] \in {81, 113}
                    /\ IsDigit(filename[i + 5])}
    IN  IF hits = {} THEN UNKNOWN
        ELSE toUpperCase(SubSeq(filename, CHOOSE i \in hits : \A j \in hits : i <= j,
                                (CHOOSE i \in hits : \A j \in hits : i <= j) + 5))

\* one row of a source file
Row(name, cell) == [name |-> JString(name), cell |-> JString(cell)]

\* a source file
SourceFile(name, size, readable, columns, rows) ==
    [name |-> name, size |-> size, readable |-> readable, columns |-> columns,
     rows |-> rows]

\* validateCSVFile(filePath).isValid, lines 145-174
validateCSVFile(file) == file.size # 0

\* validateCSVData accepting every header
validateCSVDataAnyHeader(rows, columns) ==
    Len(rows) # 0

\* validateCSVData(rows, filename).isValid, lines 46-69; columns are the
\* keys of the first row
validateCSVData(rows, columns) ==
    /\ Len(rows) # 0
    /\ REQUIRED_CSV_COLUMNS \subseteq columns

\* !csvBrandName || csvBrandName.trim() === '', line 339
BlankName(name) == ~Truthy(name) \/ trim(name.v) = <<>>

\* the body of the loop of processCSVRows without the includes test
processRowNoIncludes(acc, row, brands) ==
    IF BlankName(row.name) THEN acc
    ELSE LET matchedBrand == findBrandByName(row.name.v, brands)
         IN  IF matchedBrand # Undefined
             THEN [acc EXCEPT !.records =
                      Append(@, Rec(matchedBrand.id, parseMetric(row.cell)))]
             ELSE [acc EXCEPT !.unmatchedBrands = Append(@, row.name.v)]

\* the body of the loop of processCSVRows, lines 333-362
processRow(acc, row, brands) ==
    IF BlankName(row.name) THEN acc
    ELSE LET matchedBrand == findBrandByName(row.name.v, brands)
         IN  IF matchedBrand # Undefined
             THEN [acc EXCEPT !.records =
                      Append(@, Rec(matchedBrand.id, parseMetric(row.cell)))]
             ELSE IF row.name.v \in Range(acc.unmatchedBrands) THEN acc
             ELSE [acc EXCEPT !.unmatchedBrands = Append(@, row.name.v)]

\* processCSVRows(rows, brands), lines 326-365: the first n rows processed
RECURSIVE processCSVRowsTo(_, _, _)
processCSVRowsTo(rows, brands, n) ==
    IF n = 0 THEN [records |-> <<>>, unmatchedBrands |-> <<>>]
    ELSE processRow(processCSVRowsTo(rows, brands, n - 1), rows[n], brands)

processCSVRows(rows, brands) == processCSVRowsTo(rows, brands, Len(rows))

\* the QuarterlyData object counting the matched brands, not the records
QuarterlyDataByBrand(quarter, file, processed) ==
    [quarter |-> quarter,
     sourceFile |-> file.name,
     recordCount |-> Len(file.rows),
     matchedBrands |-> Cardinality({processed.records[i].brandId :
                                       i \in DOMAIN processed.records}),
     unmatchedBrands |-> processed.unmatchedBrands,
     records |-> processed.records]

\* the QuarterlyData object, lines 257-265
QuarterlyData(quarter, file, processed) ==
    [quarter |-> quarter,
     sourceFile |-> file.name,
     recordCount |-> Len(file.rows),
     matchedBrands |-> Len(processed.records),
     unmatchedBrands |-> processed.unmatchedBrands,
     records |-> processed.records]

\* array.sort() of an array of strings: ascending by code units, equal
\* strings kept
RECURSIVE sortStrings(_)
sortStrings(a) ==
    IF Len(a) = 0 THEN <<>>
    ELSE LET m == CHOOSE i \in DOMAIN a :
                     \A j \in DOMAIN a : ~KeyLess(a[j], a[i]) /\ (a[j] = a[i] => i <= j)
         IN  <<a[m]>> \o sortStrings([k \in 1..(Len(a) - 1) |-> IF k < m THEN a[k] ELSE a[k + 1]])

\* .filter(q => q !== 'UNKNOWN') of the quarters of the list, lines 375-377
RECURSIVE KnownQuarters(_)
KnownQuarters(list) ==
    IF Len(list) = 0 THEN <<>>
    ELSE IF list[1].quarter # UNKNOWN
         THEN <<list[1].quarter>> \o KnownQuarters(Tail(list))
         ELSE KnownQuarters(Tail(list))

\* createQuarterIndex(quarterlyDataList, csvFiles), lines 370-392
createQuarterIndex(quarterlyDataList) ==
    LET quarters == sortStrings(KnownQuarters(quarterlyDataList))
        keys == {quarterlyDataList[i].quarter : i \in DOMAIN quarterlyDataList}
    IN  [quarters |-> quarters,
         quarterFiles |-> [k \in keys |->
             quarterlyDataList[CHOOSE i \in DOMAIN quarterlyDataList :
                 /\ quarterlyDataList[i].quarter = k
                 /\ \A j \in DOMAIN quarterlyDataList :
                       quarterlyDataList[j].quarter = k => j <= i].sourceFile],
         totalQuarters |-> Len(quarters)]

\* the columns of a complete header
AllColumns == REQUIRED_CSV_COLUMNS \cup {"Brand_Stature_C"}

\* 2010Q1.csv: a brand twice in different spellings, an unknown name twice,
\* a blank name, a name that extends a brand's name
File2010Q1 ==
    SourceFile(K_2010Q1 \o DotCsv, 1, TRUE, AllColumns,
               <<Row(<<65, 98>>, <<49>>), Row(<<90, 122>>, <<>>), Row(<<32>>, <<49>>),
                 Row(<<97, 98, 32>>, <<48>>), Row(<<90, 122>>, <<49>>),
                 Row(<<65, 98, 99>>, <<49>>)>>)

\* 2010q1-b.csv: the same period as 2010Q1.csv
File2010q1b ==
    SourceFile(K_2010q1 \o <<45, 98>> \o DotCsv, 1, TRUE, AllColumns,
               <<Row(<<67, 100>>, <<49, 97>>)>>)

\* 2010Q2.csv
File2010Q2 ==
    SourceFile(K_2010Q2 \o DotCsv, 1, TRUE, AllColumns,
               <<Row(<<99, 100>>, <<32>>), Row(<<65, 98>>, <<49, 46, 48>>)>>)

\* data.csv: no period in its name
FileData ==
    SourceFile(<<100, 97, 116, 97>> \o DotCsv, 1, TRUE, AllColumns,
               <<Row(<<65, 98>>, <<49>>)>>)

\* 2010Q3.csv: an empty file
FileEmpty ==
    SourceFile(K_2010Q3 \o DotCsv, 0, TRUE, {}, <<>>)

\* 2009Q4.csv: the stream fails while it is read
FileUnreadable ==
    SourceFile(<<50, 48, 48, 57, 81, 52>> \o DotCsv, 1, FALSE, AllColumns,
               <<Row(<<65, 98>>, <<49>>)>>)

\* 2010Q4.csv: no `Brand id` column
FileNoColumn ==
    SourceFile(<<50, 48, 49, 48, 81, 52>> \o DotCsv, 1, TRUE, AllColumns \ {"Brand id"},
               <<Row(<<65, 98>>, <<49>>)>>)

SourceFiles ==
    {File2010Q1, File2010q1b, File2010Q2, FileData, FileEmpty, FileUnreadable,
     FileNoColumn}

\* what readdir can return for a directory with the files of S: every order
Listings(S) ==
    {l \in [1..Cardinality(S) -> S] : \A i, j \in DOMAIN l : i # j => l[i] # l[j]}

\* the directories of at most MaxFiles source files
Directories == {S \in SUBSET SourceFiles : Cardinality(S) <= MaxFiles}

\* the output of a run that ended: the index and the documents on disk
RunOutput(b) == [index |-> b.index, out |-> b.out, unwritten |-> b.unwritten]

\* main() returns: the first run's output is kept for comparison
EndRun(b) ==
    [b EXCEPT !.phase = "done",
              !.nruns = @ + 1,
              !.first = IF b.nruns = 0 THEN RunOutput(b) ELSE @]

\* main() is started, lines 184-204: brands.json is read and the directory
\* listed.  The files stay the same from one run to the next, the order of
\* the listing need not.
Main(csvFiles, brandsOk) ==
    /\ build.phase \in {"none", "done"}
    /\ Range(csvFiles) \in Directories
    /\ build.phase = "done" => (Range(csvFiles) = build.dir /\ build.nruns < MaxRuns)
    /\ LET fresh == build.phase = "none"
           b == [phase |-> "loop", dir |-> Range(csvFiles), csvFiles |-> csvFiles,
                 pos |-> 1, quarterlyDataList |-> <<>>,
                 out |-> IF fresh THEN EmptyMap ELSE build.out,
                 index |-> IF fresh THEN Null ELSE build.index,
                 attempted |-> <<>>, written |-> <<>>, unwritten |-> <<>>,
                 wroteIndex |-> FALSE,
                 nruns |-> IF fresh THEN 0 ELSE build.nruns,
                 first |-> IF fresh
                           THEN RunOutput([index |-> Null, out |-> EmptyMap,
                                           unwritten |-> <<>>])
                           ELSE build.first]
       IN  build' = IF ~brandsOk THEN [b EXCEPT !.phase = "exit"]
                    ELSE IF Len(csvFiles) = 0 THEN EndRun(b)
                    ELSE b
    /\ UNCHANGED <<server, cache, indexCache, performanceMetrics, calls, batches,
                   fetches, cleared, loaded, qvars, probe, view>>

\* one turn of the loop over csvFiles, lines 206-278.  writeOk is whether
\* fs.writeFile of the document succeeds (line 271); when it throws, the
\* catch goes on with the next file.
ProcessFile(writeOk) ==
    /\ build.phase = "loop"
    /\ build.pos <= Len(build.csvFiles)
    /\ LET file == build.csvFiles[build.pos]
           quarter == extractQuarter(file.name)
           b == [build EXCEPT !.pos = @ + 1, !.attempted = Append(@, file.name)]
       IN  IF ~validateCSVFile(file) THEN build' = b
           ELSE IF ~file.readable THEN build' = b
           ELSE IF ~validateCSVData(file.rows, file.columns) THEN build' = b
           ELSE LET quarterlyData ==
                        QuarterlyData(quarter, file, processCSVRows(file.rows, BrandRegistry))
                    listed == [b EXCEPT !.quarterlyDataList = Append(@, quarterlyData)]
                IN  IF ~writeOk
                    THEN build' = [listed EXCEPT !.unwritten = Append(@, file.name)]
                    ELSE build' = [listed EXCEPT
                        !.out = [k \in DOMAIN @ \cup {quarter} |->
                                    IF k = quarter THEN quarterlyData ELSE @[k]],
                        !.written = Append(@, quarterlyData)]
    /\ UNCHANGED <<server, cache, indexCache, performanceMetrics, calls, batches,
                   fetches, cleared, loaded, qvars, probe, view>>

\* index.json is written after the loop, lines 280-285
WriteIndex ==
    /\ build.phase = "loop"
    /\ build.pos > Len(build.csvFiles)
    /\ build' = EndRun([build EXCEPT
                           !.index = createQuarterIndex(build.quarterlyDataList),
                           !.wroteIndex = TRUE])
    /\ UNCHANGED <<server, cache, indexCache, performanceMetrics, calls, batches,
                   fetches, cleared, loaded, qvars, probe, view>>

InitB == Init /\ server = Server1

NextB ==
    \/ \E S \in Directories : \E csvFiles \in Listings(S) : \E brandsOk \in BOOLEAN :
          Main(csvFiles, brandsOk)
    \/ \E writeOk \in BOOLEAN : ProcessFile(writeOk)
    \/ WriteIndex

SpecB == InitB /\ [][NextB]_vars

(***************************************************************************)
(* SpecP: the utility functions applied to the strings a source file can   *)
(* hold.                                                                   *)
(***************************************************************************)
\* brand names: the letters A, a and b and the space
Names == StringsUpTo({65, 97, 98, 32}, MaxNameLen)

\* metric cells: 0, 1, space, a, the point, the minus sign and e; a column
\* the row does not have
Cells == {Undefined} \cup {JString(c) : c \in StringsUpTo({48, 49, 32, 97, 46, 45, 101}, MaxCellLen)}

\* parseMetric(value) is called, csvParser.ts lines 59-63
ParseMetric(value) ==
    /\ probe = NoProbe
    /\ probe' = [fn |-> "parseMetric", value |-> value, out |-> parseMetric(value)]
    /\ UNCHANGED <<server, cache, indexCache, performanceMetrics, calls, batches,
                   fetches, cleared, loaded, qvars, build, view>>

\* matchBrand(brandName1, brandName2) is called, brandMatcher.ts lines 29-31
MatchBrand(brandName1, brandName2) ==
    /\ probe = NoProbe
    /\ probe' = [fn |-> "matchBrand", brandName1 |-> brandName1,
                 brandName2 |-> brandName2,
                 out |-> matchBrand(brandName1, brandName2)]
    /\ UNCHANGED <<server, cache, indexCache, performanceMetrics, calls, batches,
                   fetches, cleared, loaded, qvars, build, view>>

\* the caller has taken the value of the call
ProbeReturn ==
    /\ probe # NoProbe
    /\ probe' = NoProbe
    /\ UNCHANGED <<server, cache, indexCache, performanceMetrics, calls, batches,
                   fetches, cleared, loaded, qvars, build, view>>

InitP == Init /\ server = Server1

NextP ==
    \/ \E value \in Cells : ParseMetric(value)
    \/ \E brandName1, brandName2 \in Names : MatchBrand(brandName1, brandName2)
    \/ ProbeReturn

SpecP == InitP /\ [][NextP]_vars

(***************************************************************************)
(* SpecC: the QuarterComparison component.  `view` holds the brandId prop, *)
(* the state of the useState hooks and one record per run of the loading   *)
(* effect: the brandId it closed over, its `mounted` flag and the await    *)
(* it is suspended at.  A value of the state is kept with the brandId it   *)
(* was requested for (req).                                                *)
(***************************************************************************)
\* what getAvailableQuartersForBrand can resolve with
AvailableQuarters == {<<>>, <<K_2010Q1>>, <<K_2010Q1, K_2010Q2>>}

\* the initial values of the useState hooks, lines 28-37
InitialState(brandId) ==
    [status |-> "mounted",
     brandId |-> brandId,
     availableQuarters |-> [req |-> "none", v |-> <<>>],
     selectedQuarters |-> [req |-> "none", v |-> <<>>],
     quarterlyData |-> [req |-> "none", v |-> <<>>],
     loading |-> TRUE,
     error |-> "null",
     effects |-> <<>>]

\* a setter of useState is called; React drops the update of a component
\* that is no longer mounted
SetState(v, field, value) ==
    IF v.status = "mounted" THEN [v EXCEPT ![field] = value] ELSE v

\* the cleanup of the effect that ran last, lines 89-91
Cleanup(v) ==
    IF v.effects = <<>> THEN v
    ELSE [v EXCEPT !.effects[Len(v.effects)].mounted = FALSE]

\* the effect runs for brandId: the cleanup of the previous run, then
\* loadData() up to its first await, lines 54-62 and 87
RunEffect(v, brandId) ==
    LET c == Cleanup(v)
        l == SetState(SetState(c, "loading", TRUE), "error", "null")
    IN  [l EXCEPT !.effects = Append(@, [brandId |-> brandId, mounted |-> TRUE,
                                         pc |-> "awaitQuarters", quarters |-> <<>>])]

\* the finally block of loadData for effect e, lines 80-84
Finally(v, e) ==
    LET l == IF v.effects[e].mounted THEN SetState(v, "loading", FALSE) ELSE v
    IN  [l EXCEPT !.effects[e].pc = "done"]

\* the catch block of loadData for effect e, lines 76-79
Catch(v, e) ==
    IF v.effects[e].mounted THEN SetState(v, "error", "failed") ELSE v

\* the component is rendered for the first time
Render(brandId) ==
    /\ view = NoView
    /\ view' = RunEffect(InitialState(brandId), brandId)
    /\ UNCHANGED <<server, cache, indexCache, performanceMetrics, calls, batches,
                   fetches, cleared, loaded, qvars, build, probe>>

\* the parent renders the component with another brandId: the dependency
\* of the effect changed (line 92), so it is cleaned up and run again
ChangeBrandId(brandId) ==
    /\ view.status = "mounted"
    /\ brandId # view.brandId
    /\ Len(view.effects) < MaxEffects
    /\ view' = RunEffect([view EXCEPT !.brandId = brandId], brandId)
    /\ UNCHANGED <<server, cache, indexCache, performanceMetrics, calls, batches,
                   fetches, cleared, loaded, qvars, build, probe>>

\* the component is unmounted: the cleanup runs, lines 89-91
Unmount ==
    /\ view.status = "mounted"
    /\ view' = [Cleanup(view) EXCEPT !.status = "unmounted"]
    /\ UNCHANGED <<server, cache, indexCache, performanceMetrics, calls, batches,
                   fetches, cleared, loaded, qvars, build, probe>>

\* getAvailableQuartersForBrand resolves for effect e, lines 62-72 (and
\* 80-84 when there is nothing to compare or the effect was cleaned up)
QuartersResolved(e, quarters) ==
    /\ view.status # "none"
    /\ e \in DOMAIN view.effects
    /\ view.effects[e].pc = "awaitQuarters"
    /\ LET eff == view.effects[e]
           val == [req |-> eff.brandId, v |-> quarters]
       IN  IF eff.mounted
           THEN LET s == SetState(SetState(view, "availableQuarters", val),
                                  "selectedQuarters", val)
                IN  IF Len(quarters) > 0
                    THEN view' = [s EXCEPT !.effects[e].pc = "awaitCompare",
                                           !.effects[e].quarters = quarters]
                    ELSE view' = Finally(s, e)
           ELSE view' = Finally(view, e)
    /\ UNCHANGED <<server, cache, indexCache, performanceMetrics, calls, batches,
                   fetches, cleared, loaded, qvars, build, probe>>

\* getAvailableQuartersForBrand rejects for effect e, lines 76-84
QuartersRejected(e) ==
    /\ view.status # "none"
    /\ e \in DOMAIN view.effects
    /\ view.effects[e].pc = "awaitQuarters"
    /\ view' = Finally(Catch(view, e), e)
    /\ UNCHANGED <<server, cache, indexCache, performanceMetrics, calls, batches,
                   fetches, cleared, loaded, qvars, build, probe>>

\* the quarters of a comparison: those of the request the brand has data in
ComparisonOf(quarters, present) ==
    LET In(q) == q \in present IN SelectSeq(quarters, In)

\* compareQuarters resolves for effect e, lines 72-73 and 80-84
CompareResolved(e, present) ==
    /\ view.status # "none"
    /\ e \in DOMAIN view.effects
    /\ view.effects[e].pc = "awaitCompare"
    /\ LET eff == view.effects[e]
           comparison == [req |-> eff.brandId,
                          v |-> ComparisonOf(eff.quarters, present)]
       IN  view' = Finally(SetState(view, "quarterlyData", comparison), e)
    /\ UNCHANGED <<server, cache, indexCache, performanceMetrics, calls, batches,
                   fetches, cleared, loaded, qvars, build, probe>>

\* compareQuarters rejects for effect e, lines 76-84
CompareRejected(e) ==
    /\ view.status # "none"
    /\ e \in DOMAIN view.effects
    /\ view.effects[e].pc = "awaitCompare"
    /\ view' = Finally(Catch(view, e), e)
    /\ UNCHANGED <<server, cache, indexCache, performanceMetrics, calls, batches,
                   fetches, cleared, loaded, qvars, build, probe>>

\* the user changes the selection in the QuarterSelector, lines 95-97
handleQuarterChange(chosen) ==
    /\ view.status = "mounted"
    /\ ~view.loading
    /\ view.error = "null"
    /\ view.availableQuarters.v # <<>>
    /\ chosen \subseteq Range(view.availableQuarters.v)
    /\ view' = SetState(view, "selectedQuarters",
                        [req |-> view.availableQuarters.req,
                         v |-> ComparisonOf(view.availableQuarters.v, chosen)])
    /\ UNCHANGED <<server, cache, indexCache, performanceMetrics, calls, batches,
                   fetches, cleared, loaded, qvars, build, probe>>

NextC ==
    \/ \E brandId \in BrandIds : Render(brandId)
    \/ \E brandId \in BrandIds : ChangeBrandId(brandId)
    \/ Unmount
    \/ \E e \in 1..MaxEffects : \E quarters \in AvailableQuarters :
          QuartersResolved(e, quarters)
    \/ \E e \in 1..MaxEffects : QuartersRejected(e)
    \/ \E e \in 1..MaxEffects : \E present \in SUBSET {K_2010Q1, K_2010Q2} :
          CompareResolved(e, present)
    \/ \E e \in 1..MaxEffects : CompareRejected(e)
    \/ \E chosen \in SUBSET {K_2010Q1, K_2010Q2} : handleQuarterChange(chosen)

InitC == Init /\ server = Server1

SpecC == InitC /\ [][NextC]_vars

(***************************************************************************)
(* Properties of the loader, checked under Spec.                           *)
(***************************************************************************)
\* the loadQuarter calls for normalized key k
CallsFor(k) == {c \in DOMAIN calls : calls[c].op = "loadQuarter" /\ calls[c].key = k}

\* the calls started by the current step
NewCalls == (DOMAIN calls') \ (DOMAIN calls)

\* the requested keys of a batch, normalized
BatchKeys(b) == {toUpperCase(b.quarters[i]) : i \in 1..Len(b.quarters)}

\* C1: request coalescing.  For every period key K, as long as no
\* loadQuarter call for K has completed, all the calls made for K (under any
\* spelling that normalizes to K) have caused at most one fetch of K.
C1_SingleFetchPerKey ==
    \A k \in NormKeys :
        (\A c \in CallsFor(k) : calls[c].st = "pending") => fetches[k] <= 1

\* C2: cache correctness.  Once a load of K has succeeded and until
\* clearCache is called, K is cached under every spelling (isQuarterCached
\* is true), and every loadQuarter call made in that time for a key that
\* normalizes to K is answered at once with the document that was loaded,
\* without a fetch.
C2_CacheCorrectness ==
    /\ [](\A q \in RawKeys :
            toUpperCase(q) \in DOMAIN loaded =>
                /\ isQuarterCached(q)
                /\ cache[toUpperCase(q)] = loaded[toUpperCase(q)])
    /\ [][\A c \in NewCalls :
            (calls'[c].op = "loadQuarter" /\ calls'[c].key \in DOMAIN loaded) =>
                /\ calls'[c].st = "fulfilled"
                /\ calls'[c].value = loaded[calls'[c].key]
                /\ fetches'[calls'[c].key] = fetches[calls'[c].key]]_vars

\* C2 witness: a document was loaded by a fetch, and a later call under
\* the other spelling was answered from the cache.
C2_Witness ==
    \E c1, c2 \in DOMAIN calls :
        /\ c1 < c2
        /\ calls[c1].op = "loadQuarter" /\ calls[c1].st = "fulfilled"
        /\ calls[c1].status = 200
        /\ calls[c2].op = "loadQuarter" /\ calls[c2].st = "fulfilled"
        /\ calls[c2].status = -1
        /\ calls[c2].key = calls[c1].key
        /\ fetches[calls[c1].key] = 1
        /\ isQuarterCached(K_2010q1)

\* C3: a failed load leaves its key uncached.  In the state after a
\* loadQuarter call for K has failed, K is not in the cache (so that the
\* next loadQuarter(K) fetches again).
C3_FailedLoadNotCached ==
    [][\A c \in DOMAIN calls :
        (/\ calls[c].op = "loadQuarter"
         /\ calls[c].st = "pending"
         /\ calls'[c].st = "rejected") => ~CacheHas(cache', calls[c].key)]_vars

\* C4: loadQuarters is all-or-nothing.  A loadQuarters call one of whose
\* loads failed is rejected and yields no mapping; a mapping is only ever
\* yielded by a fulfilled call, and then it has every requested key.
C4_AllOrNothing ==
    \A b \in DOMAIN batches :
        /\ (\E i \in 1..Len(batches[b].ids) : calls[batches[b].ids[i]].st = "rejected")
              => (batches[b].st = "rejected" /\ DOMAIN batches[b].value = {})
        /\ batches[b].st # "fulfilled" => DOMAIN batches[b].value = {}
        /\ batches[b].st = "fulfilled" =>
              /\ DOMAIN batches[b].value = BatchKeys(batches[b])
              /\ \A i \in 1..Len(batches[b].ids) :
                    calls[batches[b].ids[i]].st = "fulfilled"

\* C4 witness: one load of a loadQuarters call succeeded, another failed,
\* and the call was rejected.
C4_Witness ==
    \E b \in DOMAIN batches :
        /\ batches[b].st = "rejected"
        /\ \E i, j \in 1..Len(batches[b].ids) :
              /\ calls[batches[b].ids[i]].st = "fulfilled"
              /\ calls[batches[b].ids[j]].st = "rejected"

\* C9: the failure kinds of loadQuarter.  A fetch answered 404 is reported
\* as QuarterNotFoundError; a fetched document without `quarter` or without
\* `records` as InvalidQuarterDataError; neither error is reported for the
\* other cause; and the step that reports either leaves the cache as it was.
C9_FailureKinds ==
    /\ [](\A c \in DOMAIN calls :
            (calls[c].op = "loadQuarter" /\ calls[c].status # -1) =>
                LET body == server.docs[calls[c].key]
                IN  /\ calls[c].status = HTTP_NOT_FOUND
                          => (calls[c].st = "rejected"
                              /\ calls[c].err = "QuarterNotFoundError")
                    /\ (/\ calls[c].status = 200
                        /\ body.json
                        /\ (body.quarter = Undefined \/ body.records = Undefined))
                          => (calls[c].st = "rejected"
                              /\ calls[c].err = "InvalidQuarterDataError")
                    /\ calls[c].err = "QuarterNotFoundError"
                          => calls[c].status = HTTP_NOT_FOUND
                    /\ calls[c].err = "InvalidQuarterDataError"
                          => (/\ calls[c].status = 200
                              /\ body.json
                              /\ InvalidQuarterData(body)))
    /\ [][\A c \in DOMAIN calls :
            (/\ calls[c].st = "pending"
             /\ calls'[c].err \in {"QuarterNotFoundError", "InvalidQuarterDataError"})
                => cache' = cache]_vars

\* C9 witness: one call failed on a 404 and another on a document without
\* `quarter`, each with its own error, and nothing is cached.
C9_Witness ==
    \E c1, c2 \in DOMAIN calls :
        /\ calls[c1].status = HTTP_NOT_FOUND
        /\ calls[c1].err = "QuarterNotFoundError"
        /\ calls[c2].status = 200
        /\ server.docs[calls[c2].key].quarter = Undefined
        /\ calls[c2].err = "InvalidQuarterDataError"
        /\ cache = EmptyMap

\* C10: a failed loadQuarterIndex leaves the index uncached.  In the state
\* after a loadQuarterIndex call has failed, indexCache is null (so that the
\* next call fetches again).
C10_FailedIndexLoadNotCached ==
    [][\A c \in DOMAIN calls :
        (/\ calls[c].op = "loadQuarterIndex"
         /\ calls[c].st = "pending"
         /\ calls'[c].st = "rejected") => ~IndexCached(indexCache')]_vars

\* C21: after clearCache() the next loadQuarter(K) fetches K instead of
\* answering from the cache, for every key K, and the next loadQuarterIndex()
\* fetches the index, also when a load that was started before the
\* clearCache completes after it.
C21_ClearCacheRefetches ==
    [][\A k \in cleared :
        LET new == {c \in NewCalls : calls'[c].key = k}
        IN  new # {} =>
                LET c == CHOOSE n \in new : \A m \in new : n <= m
                IN  /\ calls'[c].st = "pending"
                    /\ fetches'[k] > fetches[k]]_vars

\* C22: whenever a period document exists (the fetch is answered with a
\* success status) but its body is not valid JSON or lacks a required field,
\* loadQuarter raises InvalidQuarterDataError.
C22_UnusableDocumentIsInvalid ==
    \A c \in DOMAIN calls :
        (calls[c].op = "loadQuarter" /\ calls[c].status = 200) =>
            LET body == server.docs[calls[c].key]
            IN  (~body.json \/ body.quarter = Undefined \/ body.records = Undefined)
                    => (calls[c].st = "rejected"
                        /\ calls[c].err = "InvalidQuarterDataError")

\* C25: the cache is write-once per key.  Between two clearCache calls the
\* entry of a key is written at most once, the document cached for a key
\* does not change once set, and every call that obtained a document for a
\* cached key holds the document the cache holds.
C25_WriteOncePerKey ==
    /\ [][\A c \in DOMAIN calls :
            (/\ calls[c].op = "loadQuarter"
             /\ calls[c].st = "pending"
             /\ calls'[c].st = "fulfilled") => ~CacheHas(cache, calls[c].key)]_vars
    /\ [][\A k \in DOMAIN cache \cap DOMAIN cache' : cache'[k] = cache[k]]_vars
    /\ [](\A c \in DOMAIN calls :
            (/\ calls[c].op = "loadQuarter"
             /\ calls[c].st = "fulfilled"
             /\ CacheHas(cache, calls[c].key)) => calls[c].value = cache[calls[c].key])

\* C26: the mapping of a fulfilled loadQuarters(keys) is the same whatever
\* the order in which the fetches complete: its keys are exactly the
\* upper-cased requested keys and each key maps to the document of that
\* period, which is the document each load for that key returned, also when
\* keys holds a period twice or in different letter case.
C26_MergeByKey ==
    \A b \in DOMAIN batches :
        batches[b].st = "fulfilled" =>
            LET quarters == batches[b].quarters
            IN  /\ DOMAIN batches[b].value =
                      {toUpperCase(quarters[i]) : i \in 1..Len(quarters)}
                /\ \A i \in 1..Len(quarters) :
                      /\ toUpperCase(quarters[i]) \in DOMAIN batches[b].value
                      /\ batches[b].value[toUpperCase(quarters[i])]
                            = calls[batches[b].ids[i]].value
                      /\ calls[batches[b].ids[i]].value
                            = server.docs[toUpperCase(quarters[i])]

\* C26 happens: a loadQuarters call for one period in two spellings was
\* fulfilled after two fetches
C26_Witness ==
    \E b \in DOMAIN batches :
        /\ batches[b].st = "fulfilled"
        /\ batches[b].quarters = <<K_2010Q1, K_2010q1>>
        /\ \A i \in 1..2 : calls[batches[b].ids[i]].status = 200
        /\ DOMAIN batches[b].value = {K_2010Q1}

\* the loads that were in flight when their loadQuarters call was rejected
Abandoned == UNION {batches[b].abandoned : b \in DOMAIN batches}

\* C27: an in-flight fetch is never cancelled.  When loadQuarters fails
\* because one key failed, every other load it started still completes; if
\* it succeeds, it puts its document in the cache in that step; and a
\* loadQuarter started while the key is cached is answered from the cache
\* without a fetch.
C27_InFlightCompletes ==
    /\ \A c \in 1..MaxLiveCalls :
          (c \in Abandoned /\ calls[c].st = "pending")
              ~> (c \in DOMAIN calls /\ calls[c].st # "pending")
    /\ [][\A c \in Abandoned :
            (calls[c].st = "pending" /\ calls'[c].st = "fulfilled") =>
                /\ CacheHas(cache', calls[c].key)
                /\ cache'[calls[c].key] = calls'[c].value]_vars
    /\ [][\A c \in NewCalls :
            CacheHas(cache, calls'[c].key) =>
                /\ calls'[c].st = "fulfilled"
                /\ calls'[c].value = cache[calls'[c].key]
                /\ fetches'[calls'[c].key] = fetches[calls'[c].key]]_vars

\* C27 happens: a load that was in flight when its loadQuarters call was
\* rejected has succeeded, and a later loadQuarter for its key was answered
\* from the cache
C27_Witness ==
    \E c \in Abandoned : \E later \in DOMAIN calls :
        /\ calls[c].st = "fulfilled"
        /\ calls[c].status = 200
        /\ batches[calls[c].batch].st = "rejected"
        /\ later > c
        /\ calls[later].key = calls[c].key
        /\ calls[later].batch = 0
        /\ calls[later].st = "fulfilled"
        /\ calls[later].status = -1

\* C28: in every state totalLoads = cacheHits + cacheMisses and slowLoads <=
\* the number of recorded load times <= cacheMisses; a load time is recorded
\* only by a loadQuarter whose fetch succeeded, one per load; and clearCache
\* changes none of the counters.
C28_Metrics ==
    /\ [](/\ performanceMetrics.totalLoads
                = performanceMetrics.cacheHits + performanceMetrics.cacheMisses
           /\ performanceMetrics.slowLoads <= Len(performanceMetrics.loadTimes)
           /\ Len(performanceMetrics.loadTimes) <= performanceMetrics.cacheMisses)
    /\ [][performanceMetrics'.loadTimes # performanceMetrics.loadTimes =>
            /\ Len(performanceMetrics'.loadTimes) = Len(performanceMetrics.loadTimes) + 1
            /\ \E c \in DOMAIN calls :
                  /\ calls[c].op = "loadQuarter"
                  /\ calls[c].st = "pending"
                  /\ calls'[c].st = "fulfilled"
                  /\ calls'[c].status = 200]_vars
    /\ [][(calls' = calls /\ cleared' = Urls)
            => performanceMetrics' = performanceMetrics]_vars

\* C28 happens: a slow load that succeeded, a load that failed and a load
\* answered from the cache have been counted
C28_Witness ==
    /\ performanceMetrics.totalLoads = 3
    /\ performanceMetrics.cacheHits = 1
    /\ performanceMetrics.cacheMisses = 2
    /\ performanceMetrics.slowLoads = 1
    /\ Len(performanceMetrics.loadTimes) = 1
    /\ \E c \in DOMAIN calls : calls[c].op = "loadQuarter" /\ calls[c].st = "rejected"


(***************************************************************************)
(* Properties of the association service, checked under SpecQ.             *)
(***************************************************************************)
\* the brand is in the registry
Known(brandId) == brandId \in {BrandRegistry[i].id : i \in DOMAIN BrandRegistry}

\* the outcomes of method `name` for a registry brand that ran to its end
ResultsOf(name) ==
    {i \in DOMAIN results : results[i].name = name /\ Known(results[i].brandId)}

\* C5: for a registry brand E and a period key P, getMetricsForQuarter(E, P)
\* returns a record if and only if P is an element of the list that
\* getAvailableQuartersForBrand(E) returns, whatever P the caller passes.
C5_MetricsIffAvailable ==
    \A i \in ResultsOf("getMetricsForQuarter") :
        \A j \in ResultsOf("getAvailableQuartersForBrand") :
            (/\ results[i].brandId = results[j].brandId
             /\ results[i].st = "fulfilled"
             /\ results[j].st = "fulfilled") =>
                (results[i].value.t = "metrics" <=>
                    results[i].quarter \in Range(results[j].value.v))

\* C6: for a registry brand E, the key set of compareQuarters(E, periods) is
\* a subset of `periods` and equals `periods` intersected with the list that
\* getAvailableQuartersForBrand(E) returns.
C6_CompareKeys ==
    \A i \in ResultsOf("compareQuarters") :
        results[i].st = "fulfilled" =>
            /\ DOMAIN results[i].value.v \subseteq Range(results[i].quarters.v)
            /\ \A j \in ResultsOf("getAvailableQuartersForBrand") :
                  (results[j].brandId = results[i].brandId /\ results[j].st = "fulfilled") =>
                      DOMAIN results[i].value.v =
                          Range(results[i].quarters.v) \cap Range(results[j].value.v)

\* the loadQuarter calls that the loadQuarters call b made
BatchCalls(b) == Range(batches[b].ids)

\* C7 as stated: for a registry brand, getMetricsForQuarter, compareQuarters
\* and getBrandWithQuarterlyData never throw because a period document was
\* not found; getMetricsForQuarter returns null for such a period.
C7_NotFoundIsAbsence ==
    \A name \in {"getMetricsForQuarter", "compareQuarters", "getBrandWithQuarterlyData"} :
        \A i \in ResultsOf(name) :
            /\ results[i].err # "QuarterNotFoundError"
            /\ (name = "getMetricsForQuarter" /\ results[i].call > 0
                   /\ calls[results[i].call].status = HTTP_NOT_FOUND) =>
                  (results[i].st = "fulfilled" /\ results[i].value.t = "null")

\* C7 as the code has it: for a registry brand, getMetricsForQuarter(E, P)
\* throws QuarterNotFoundError when the fetch of P's document is answered
\* 404, and returns null only when the document was loaded and has no
\* record of E; compareQuarters and getBrandWithQuarterlyData throw when a
\* requested document is answered 404, throw QuarterNotFoundError only then,
\* and when they return they leave out exactly the loaded periods whose
\* document has no record of E.
C7_NotFoundIsThrown ==
    /\ \A i \in ResultsOf("getMetricsForQuarter") :
          results[i].call > 0 =>
            LET r == results[i]
                p == calls[r.call]
            IN  /\ p.status = HTTP_NOT_FOUND =>
                      (r.st = "rejected" /\ r.err = "QuarterNotFoundError")
                /\ r.err = "QuarterNotFoundError" => p.status = HTTP_NOT_FOUND
                /\ (r.st = "fulfilled" /\ r.value.t = "null") =>
                      /\ p.st = "fulfilled"
                      /\ FindRecord(p.value.records.v, r.brandId) = Undefined
    /\ \A name \in {"compareQuarters", "getBrandWithQuarterlyData"} :
          \A i \in ResultsOf(name) :
            results[i].batch > 0 =>
              LET r == results[i]
                  b == batches[r.batch]
                  data == IF name = "compareQuarters" THEN r.value.v
                          ELSE r.value.quarterlyData
              IN  /\ (\E c \in BatchCalls(r.batch) : calls[c].status = HTTP_NOT_FOUND) =>
                        r.st = "rejected"
                  /\ r.err = "QuarterNotFoundError" =>
                        \E c \in BatchCalls(r.batch) : calls[c].status = HTTP_NOT_FOUND
                  /\ r.st = "fulfilled" =>
                        /\ \A c \in BatchCalls(r.batch) : calls[c].st = "fulfilled"
                        /\ DOMAIN data =
                             {calls[c].key : c \in {d \in BatchCalls(r.batch) :
                                FindRecord(calls[d].value.records.v, r.brandId) # Undefined}}

\* C7 happens: a method threw QuarterNotFoundError for a registry brand, and
\* another returned null for a period whose document was loaded
C7_Witness ==
    /\ \E i \in ResultsOf("getMetricsForQuarter") :
          /\ results[i].err = "QuarterNotFoundError"
          /\ calls[results[i].call].status = HTTP_NOT_FOUND
    /\ \E i \in ResultsOf("getMetricsForQuarter") :
          /\ results[i].st = "fulfilled"
          /\ results[i].value.t = "null"

\* the running method was called with an id the registry does not have
UnknownBrand(o) ==
    /\ o # Idle
    /\ o.name \in BrandMethods
    /\ ~Known(o.brandId)

\* C8: each of the six methods that take a brand id, called with an id that
\* is not in the registry, throws BrandNotFoundError (Error when brands.json
\* itself could not be loaded) without having called the loader, and no
\* step of the method changes the loader's cache, index, counters, promises
\* or fetch counts.
C8_UnknownBrand ==
    /\ [](\A i \in DOMAIN results :
            (results[i].name \in BrandMethods /\ ~Known(results[i].brandId)) =>
                /\ results[i].st = "rejected"
                /\ results[i].err =
                      IF results[i].registry THEN "BrandNotFoundError" ELSE "Error"
                /\ results[i].call = 0
                /\ results[i].batch = 0)
    /\ [][(op' # op /\ (UnknownBrand(op) \/ UnknownBrand(op'))) =>
             UNCHANGED <<cache, indexCache, performanceMetrics, calls, batches, fetches,
                         cleared>>]_vars

\* C8 happens: a method threw BrandNotFoundError for an unknown id while the
\* loader held a cached document
C8_Witness ==
    /\ cache # EmptyMap
    /\ \E i \in DOMAIN results :
          /\ results[i].name \in BrandMethods
          /\ ~Known(results[i].brandId)
          /\ results[i].err = "BrandNotFoundError"

\* sequence a is strictly ascending in the order of code units
Ascending(a) ==
    \A i, j \in DOMAIN a : i < j => KeyLess(a[i], a[j])

\* C11: in every value getBrandWithQuarterlyData returns, quarterlyData has
\* an entry for a period exactly when the loaded document of that period has
\* a record of the brand (with that record's metrics); availableQuarters is
\* sorted ascending and is exactly the key set of quarterlyData;
\* latestQuarter is the greatest key and is undefined exactly when there is
\* no key.
C11_HistoryShape ==
    \A i \in ResultsOf("getBrandWithQuarterlyData") :
        results[i].st = "fulfilled" =>
            LET r == results[i]
                v == r.value
                with == {c \in BatchCalls(r.batch) :
                           FindRecord(calls[c].value.records.v, r.brandId) # Undefined}
            IN  /\ DOMAIN v.quarterlyData = {calls[c].key : c \in with}
                /\ \A c \in with :
                      v.quarterlyData[calls[c].key] =
                          FindRecord(calls[c].value.records.v, r.brandId).metrics
                /\ Ascending(v.availableQuarters)
                /\ Range(v.availableQuarters) = DOMAIN v.quarterlyData
                /\ (v.latestQuarter = Undefined) <=> (DOMAIN v.quarterlyData = {})
                /\ v.latestQuarter # Undefined =>
                      /\ v.latestQuarter.v \in DOMAIN v.quarterlyData
                      /\ \A k \in DOMAIN v.quarterlyData \ {v.latestQuarter.v} :
                            KeyLess(k, v.latestQuarter.v)

\* C11 happens: a history for which two documents were loaded, one of them
\* without a record of the brand
C11_Witness ==
    \E i \in ResultsOf("getBrandWithQuarterlyData") :
        /\ results[i].st = "fulfilled"
        /\ Cardinality(BatchCalls(results[i].batch)) = 2
        /\ DOMAIN results[i].value.quarterlyData = {K_2010Q1}
        /\ results[i].value.latestQuarter = JString(K_2010Q1)

\* C12: hasBrandQuarterlyData(E) is the non-emptiness of the list that
\* getAvailableQuartersForBrand(E) returns; in the value of
\* getBrandDataCoverage(E), quartersWithData is the length of
\* availableQuarters and at most totalQuarters, coveragePercent is 0 exactly
\* when quartersWithData is 0, and earliestQuarter and latestQuarter are
\* null in exactly that case.
C12_CoverageShape ==
    /\ \A i \in ResultsOf("hasBrandQuarterlyData") :
          \A j \in ResultsOf("getAvailableQuartersForBrand") :
            (/\ results[i].brandId = results[j].brandId
             /\ results[i].st = "fulfilled"
             /\ results[j].st = "fulfilled") =>
                results[i].value.v = (Len(results[j].value.v) > 0)
    /\ \A i \in ResultsOf("getBrandDataCoverage") :
          results[i].st = "fulfilled" =>
            LET v == results[i].value
            IN  /\ v.quartersWithData = Len(v.availableQuarters)
                /\ v.quartersWithData <= v.totalQuarters
                /\ (v.coveragePercent.num = 0) <=> (v.quartersWithData = 0)
                /\ (v.earliestQuarter = [t |-> "null"]) <=> (v.quartersWithData = 0)
                /\ (v.latestQuarter = [t |-> "null"]) <=> (v.quartersWithData = 0)

\* C12 happens: the coverage of a brand under an index that lists nothing,
\* and hasBrandQuarterlyData next to the list it summarises
C12_Witness ==
    \E i \in ResultsOf("getBrandDataCoverage") :
        /\ results[i].st = "fulfilled"
        /\ results[i].value.totalQuarters = 0
        /\ \E j \in ResultsOf("hasBrandQuarterlyData") :
              results[j].st = "fulfilled" /\ ~results[j].value.v

(***************************************************************************)
(* Properties of the utility functions, checked under SpecP.               *)
(***************************************************************************)
\* the text is a number as a whole: all of it, trimmed, is a numeric literal
IsNumeric(text) ==
    /\ Len(trim(text)) > 0
    /\ FloatPrefix(trim(text)).len = Len(trim(text))

\* C19: parseMetric gives null, never 0, for a missing, empty or blank cell;
\* the number for a cell that is a number, 0 for a measured 0; and null for
\* every other cell, text that only starts with digits included.
C19_MetricParsing ==
    probe.fn = "parseMetric" =>
        LET value == probe.value
        IN  IF value = Undefined \/ trim(value.v) = <<>>
            THEN probe.out = [t |-> "null"]
            ELSE IF IsNumeric(value.v)
                 THEN probe.out = FloatPrefix(trim(value.v)).value
                 ELSE probe.out = [t |-> "null"]

\* one string is a proper prefix or a proper substring of the other
ProperSubstring(a, b) ==
    /\ Len(a) < Len(b)
    /\ \E i \in 0..(Len(b) - Len(a)) : SubSeq(b, i + 1, i + Len(a)) = a

Documents ==
    IF build.phase = "none" THEN {}
    ELSE Range(build.written) \cup {build.out[k] : k \in DOMAIN build.out}

\* the source file a document was built from
FileNamed(name) == CHOOSE f \in SourceFiles : f.name = name

\* the rows of file f with a name that is not blank
NamedRows(f) == {i \in DOMAIN f.rows : ~BlankName(f.rows[i].name)}

\* the rows of file f whose name matches a registry entry
MatchedRows(f) ==
    {i \in NamedRows(f) :
        \E b \in DOMAIN BrandRegistry : matchBrand(f.rows[i].name.v, BrandRegistry[b].name)}

\* C13: every document the build writes has matchedBrands = records.length
\* and records.length <= recordCount, whatever rows the source file has.
C13_DocumentCounts ==
    \A d \in Documents :
        /\ d.matchedBrands = Len(d.records)
        /\ Len(d.records) <= d.recordCount
        /\ d.recordCount = Len(FileNamed(d.sourceFile).rows)

\* C13 happens: a document was written for a file with a blank name,
\* unmatched names and a repeated brand
C13_Witness ==
    \E d \in Documents :
        /\ d.sourceFile = File2010Q1.name
        /\ d.matchedBrands = 2
        /\ d.recordCount = 6

\* C14: the quarters of the index the build writes are sorted ascending,
\* hold no key twice and never hold UNKNOWN.
C14_IndexQuarters ==
    (build.phase = "done" /\ build.wroteIndex) =>
        /\ Ascending(build.index.quarters)
        /\ UNKNOWN \notin Range(build.index.quarters)

\* the file passes file validation, parsing and data validation
Passes(f) ==
    /\ f.size > 0
    /\ f.readable
    /\ Len(f.rows) > 0
    /\ \A c \in REQUIRED_CSV_COLUMNS : c \in f.columns

\* the names of the files of a listing, in order
NamesOf(l) == [i \in DOMAIN l |-> l[i].name]

PassesWithPeriod(f) == Passes(f) /\ extractQuarter(f.name) # UNKNOWN

\* the names of the files of the listing that pass, in order
PassingNames(l) == NamesOf(SelectSeq(l, Passes))

\* the file passes and the write of its document did not fail
PassesAndWritable(f) == Passes(f) /\ f.name \notin Range(build.unwritten)

\* the run that ended attempted every file, wrote a document for exactly
\* the files that pass (unless the write itself failed), indexed only files
\* that pass, and wrote the index
RunCompleted ==
    /\ build.attempted = NamesOf(build.csvFiles)
    /\ [i \in DOMAIN build.written |-> build.written[i].sourceFile] =
          NamesOf(SelectSeq(build.csvFiles, PassesAndWritable))
    /\ \A n \in Range(build.unwritten) : n \in Range(PassingNames(build.csvFiles))
    /\ \A i \in DOMAIN build.written :
          build.out[extractQuarter(build.written[i].sourceFile)].sourceFile
              \in Range(PassingNames(build.csvFiles))
    /\ build.wroteIndex
    /\ Len(build.index.quarters) = Len(SelectSeq(build.csvFiles, PassesWithPeriod))
    /\ \A k \in DOMAIN build.index.quarterFiles :
          build.index.quarterFiles[k] \in Range(PassingNames(build.csvFiles))

C16_Idempotent ==
    (/\ build.phase = "done"
     /\ build.nruns >= 2
     /\ build.unwritten = <<>>
     /\ build.first.unwritten = <<>>) =>
        /\ build.index.quarters = build.first.index.quarters
        /\ DOMAIN build.out = DOMAIN build.first.out
        /\ \A k \in DOMAIN build.out \cap DOMAIN build.first.out :
              /\ build.out[k].matchedBrands = build.first.out[k].matchedBrands
              /\ build.out[k].unmatchedBrands = build.first.out[k].unmatchedBrands
              /\ build.out[k].records = build.first.out[k].records

C18_FirstOccurrenceOnly ==
    \A d \in Documents :
        LET f == FileNamed(d.sourceFile)
        IN  /\ \A i, j \in DOMAIN d.records :
                  i # j => d.records[i].brandId # d.records[j].brandId
            /\ \A j \in DOMAIN d.records :
                  LET rows == {i \in MatchedRows(f) :
                                  findBrandByName(f.rows[i].name.v, BrandRegistry).id
                                      = d.records[j].brandId}
                  IN  d.records[j].metrics =
                          parseMetric(f.rows[CHOOSE i \in rows : \A k \in rows : i <= k].cell)

\* the first registry entry whose name matches the name
FirstMatch(name) ==
    CHOOSE i \in DOMAIN BrandRegistry :
        /\ matchBrand(name, BrandRegistry[i].name)
        /\ \A j \in 1..(i - 1) : ~matchBrand(name, BrandRegistry[j].name)

\* the j-th of the rows of file f that match a registry entry
NthMatchedRow(f, j) ==
    CHOOSE i \in MatchedRows(f) : Cardinality({k \in MatchedRows(f) : k <= i}) = j

\* C23: the brand of every record is the first registry entry, in registry
\* order, whose normalized name equals the normalized name of the record's
\* row, also when two registry entries normalize identically; a name is
\* reported as unmatched only if no registry entry matches it.
C23_FirstRegistryMatch ==
    \A d \in Documents :
        LET f == FileNamed(d.sourceFile)
        IN  /\ Len(d.records) = Cardinality(MatchedRows(f))
            /\ \A j \in DOMAIN d.records :
                  d.records[j].brandId =
                      BrandRegistry[FirstMatch(f.rows[NthMatchedRow(f, j)].name.v)].id
            /\ \A n \in Range(d.unmatchedBrands) :
                  \A b \in DOMAIN BrandRegistry : ~matchBrand(n, BrandRegistry[b].name)

\* C23 happens: a record of the first entry was made from a row whose name
\* a later registry entry matches too
C23_Witness ==
    \E d \in Documents : \E j \in DOMAIN d.records :
        LET name == FileNamed(d.sourceFile).rows[NthMatchedRow(FileNamed(d.sourceFile), j)].name.v
        IN  /\ d.records[j].brandId = BrandRegistry[1].id
            /\ matchBrand(name, BrandRegistry[1].name)
            /\ matchBrand(name, BrandRegistry[3].name)
            /\ d.unmatchedBrands # <<>>

\* C24: a file whose period key could not be determined is left out of the
\* whole index: the keys of quarterFiles are exactly the keys in quarters,
\* UNKNOWN is neither in quarters nor a key of quarterFiles, and totalQuarters
\* is the number of keys of quarterFiles.
C24_UnknownNotIndexed ==
    (build.phase = "done" /\ build.wroteIndex) =>
        /\ DOMAIN build.index.quarterFiles = Range(build.index.quarters)
        /\ UNKNOWN \notin Range(build.index.quarters)
        /\ UNKNOWN \notin DOMAIN build.index.quarterFiles
        /\ build.index.totalQuarters = Cardinality(DOMAIN build.index.quarterFiles)

\* C29: every period key listed in the index a run writes has a document
\* that was written in that run, and a file whose document write failed has
\* no entry in quarters or quarterFiles.
C29_IndexedIsWritten ==
    (build.phase = "done" /\ build.wroteIndex) =>
        /\ \A k \in Range(build.index.quarters) \cup DOMAIN build.index.quarterFiles :
              \E i \in DOMAIN build.written : build.written[i].quarter = k
        /\ \A n \in Range(build.unwritten) :
              \A k \in DOMAIN build.index.quarterFiles : build.index.quarterFiles[k] # n

(***************************************************************************)
(* Properties of the QuarterComparison component, checked under SpecC.     *)
(***************************************************************************)
\* the state a load writes its results into
LoadedFields == {"availableQuarters", "selectedQuarters", "quarterlyData"}

\* C30: once brandId has changed from A to B, or the component is unmounted,
\* while the load for A is running, no result requested for A is written
\* into availableQuarters, selectedQuarters or quarterlyData, whichever of
\* the two awaited calls was pending: a step that changes one of them writes
\* a value requested for the brandId the component has.
C30_NoStaleResult ==
    [][(view.status = "mounted" /\ view'.status = "mounted") =>
          \A f \in LoadedFields :
              view'[f] # view[f] => view'[f].req = view'.brandId]_vars

====
